---- MODULE Spec2Model ----
(***************************************************************************)
(* Persistent, reference-counted AVL tree of suffix-avl-persistent.cc.     *)
(*                                                                         *)
(* The heap is modelled explicitly: every `new Node` takes a fresh         *)
(* address, every `delete` removes the node from the heap and logs it.     *)
(* A tree version is an AVLTree object (std::optional<NodePtr> root).      *)
(* Every operation of the source is one action that runs the whole call.   *)
(***************************************************************************)
EXTENDS Integers, Sequences, FiniteSets, TLC

VARIABLES mem, root, hist, nins, lb, val, dr, drv, cb, bt, tr, av, treap, splay, sig

\* the persistent AVL tree: heap, root handles, and what the caller did
avlVars == <<mem, root, hist, nins, lb, val, dr>>
\* drv: the bulk-insertion loop of main() and the SIGINT plumbing;
\* cb: the CritBitTree of critbit-tree.h; bt: the persistent B-tree;
\* tr: the trie of suffix-critbit-tree.cc; av: the AVL tree of
\* suffix-avl.cc; treap and splay: the treap and the splay tree;
\* sig: SignalHelper, its handler list, lock and thread
nonAvlVars == <<drv, cb, bt, tr, av, treap, splay, sig>>

vars == <<mem, root, hist, nins, lb, val, dr, drv, cb, bt, tr, av, treap, splay, sig>>

\* the value of the variables of a program that is not running
Idle == <<>>

----------------------------------------------------------------------------
(* Bounds of the model *)

\* number of AVLTree objects (versions) that may exist at the same time
NumTrees == 2
\* total number of Insert calls in one run with several versions
MaxInserts == 4
\* total number of Insert calls in one run of the single-tree driver
MaxMainInserts == 6
\* number of Insert calls in one run that present an already stored key
MaxDups == 1
\* number of nodes of the arbitrary node graphs handed to DoValidate/DecRef
MaxVNodes == 3

Trees == 1..NumTrees

\* keys and queries: byte strings (std::string_view), bytes are 1 and 2
Keys == {<<1>>, <<1, 1>>, <<1, 2>>, <<2>>, <<2, 1>>, <<2, 2>>}
Queries == Keys \cup {<<>>, <<2, 2, 1>>}

\* root[t] of an AVLTree object that does not exist / whose optional is empty
NoTree == -1
NullOpt == 0
\* the null Node*
Null == 0
\* result of reading through a dangling pointer
UB == -1

----------------------------------------------------------------------------
(* std::string_view comparison *)

Min(a, b) == IF a < b THEN a ELSE b
Max(a, b) == IF a > b THEN a ELSE b

RECURSIVE Pow2(_), FloorLog2(_)

Pow2(n) == IF n = 0 THEN 1 ELSE 2 * Pow2(n - 1)

\* floor(log2(x)) for x >= 1
FloorLog2(x) == IF x < 2 THEN 0 ELSE 1 + FloorLog2(x \div 2)

SetMax(S) == CHOOSE x \in S : \A y \in S : y <= x

\* std::string_view::compare: the first differing byte among the common
\* length decides, otherwise the lengths; result is -1, 0 or 1
Compare(a, b) ==
  LET rlen == Min(Len(a), Len(b))
      diff == {i \in 1..rlen : a[i] # b[i]}
  IN IF diff # {}
       THEN LET i == CHOOSE i \in diff : \A j \in diff : i <= j
            IN IF a[i] < b[i] THEN -1 ELSE 1
       ELSE IF Len(a) < Len(b) THEN -1
            ELSE IF Len(a) > Len(b) THEN 1 ELSE 0

StrLess(a, b) == Compare(a, b) < 0
StrGeq(a, b) == Compare(a, b) >= 0
StrGreater(a, b) == Compare(a, b) > 0

\* std::mismatch(...).first - data.begin(): length of the common prefix
Mismatch(a, b) ==
  LET rlen == Min(Len(a), Len(b))
      diff == {i \in 1..rlen : a[i] # b[i]}
  IN IF diff = {} THEN rlen ELSE (CHOOSE i \in diff : \A j \in diff : i <= j) - 1

----------------------------------------------------------------------------
(* The heap *)

EmptyFn == [x \in {} |-> 0]

\* an empty heap; addresses start at 1.  nodes: the allocated nodes; freedRc:
\* the deleted nodes with the refcount each had when deleted; ub: a freed node
\* was accessed; assertFail: an assert of a debug build failed; aborted:
\* abort() was called by the reference counting; slow: number of rebalancings
EmptyMem == [nodes |-> EmptyFn, next |-> 1, freedRc |-> EmptyFn,
             ub |-> FALSE, assertFail |-> FALSE, aborted |-> FALSE, slow |-> 0]

Live(m) == DOMAIN m.nodes
IsLive(m, p) == p \in DOMAIN m.nodes

\* flag a dereference of a pointer that is neither null nor live
Touch(m, p) == IF p = Null \/ IsLive(m, p) THEN m ELSE [m EXCEPT !.ub = TRUE]
\* flag a dereference of a pointer that must be live
Deref(m, p) == IF IsLive(m, p) THEN m ELSE [m EXCEPT !.ub = TRUE]

Abs(x) == IF x < 0 THEN -x ELSE x

HeightOf(m, ptr) == IF ptr # Null /\ IsLive(m, ptr) THEN m.nodes[ptr].height ELSE 0

BalanceOf(m, left, right) == HeightOf(m, right) - HeightOf(m, left)

RawLeft(m, p) == IF IsLive(m, p) THEN m.nodes[p].left ELSE Null
RawRight(m, p) == IF IsLive(m, p) THEN m.nodes[p].right ELSE Null
ValueOf(m, p) == IF IsLive(m, p) THEN m.nodes[p].value ELSE <<>>

\* GreaterThan with the comparison turned around
GreaterThanReversed(nodeValue, value) == StrLess(nodeValue, value)

\* GreaterThan that also holds of an equal value
GreaterThanOrEqual(nodeValue, value) == ~StrLess(nodeValue, value)

\* bool Node::GreaterThan(value): value < this->value
GreaterThan(nodeValue, value) == StrLess(value, nodeValue)

\* NodePtr::IncRef
IncRef(m, p) ==
  IF p = Null THEN m
  ELSE IF ~IsLive(m, p) THEN [m EXCEPT !.ub = TRUE]
  ELSE [m EXCEPT !.nodes[p].refcount = @ + 1]

RECURSIVE DecRef(_, _), DeleteNode(_, _)

\* delete p: ~Node() destroys the members in reverse order of declaration
\* (right, then left), then the memory is released
DeleteNode(m, p) ==
  LET n  == m.nodes[p]
      m1 == DecRef(m, n.right)
      m2 == DecRef(m1, n.left)
  IN IF ~IsLive(m2, p) THEN [m2 EXCEPT !.ub = TRUE]
     ELSE [m2 EXCEPT !.nodes = [a \in (DOMAIN m2.nodes) \ {p} |-> m2.nodes[a]],
                     !.freedRc = (p :> m2.nodes[p].refcount) @@ @]

\* DecRef that aborts instead of taking a count below zero
DecRefChecked(m, p) ==
  IF p = Null THEN m
  ELSE IF ~IsLive(m, p) THEN [m EXCEPT !.ub = TRUE]
  ELSE IF m.nodes[p].refcount <= 0 THEN [m EXCEPT !.aborted = TRUE]
  ELSE LET m1 == [m EXCEPT !.nodes[p].refcount = @ - 1]
       IN IF m1.nodes[p].refcount = 0 THEN DeleteNode(m1, p) ELSE m1

\* DecRef that tests the count before decrementing it: p->refcount-- == 0
DecRefPostDecrement(m, p) ==
  IF p = Null THEN m
  ELSE IF ~IsLive(m, p) THEN [m EXCEPT !.ub = TRUE]
  ELSE LET m1 == [m EXCEPT !.nodes[p].refcount = @ - 1]
       IN IF m.nodes[p].refcount = 0 THEN DeleteNode(m1, p) ELSE m1

\* NodePtr::DecRef
DecRef(m, p) ==
  IF p = Null THEN m
  ELSE IF ~IsLive(m, p) THEN [m EXCEPT !.ub = TRUE]
  ELSE LET m1 == [m EXCEPT !.nodes[p].refcount = @ - 1]
       IN IF m1.nodes[p].refcount = 0 THEN DeleteNode(m1, p) ELSE m1

\* explicit Node(value): a leaf, refcount 0
NewLeaf(m, value) ==
  LET p == m.next
  IN [m |-> [m EXCEPT !.nodes = (p :> [refcount |-> 0, height |-> 1, left |-> Null,
                                       right |-> Null, value |-> value]) @@ @,
                      !.next = p + 1],
      p |-> p]

\* Node(left, value, right): the height is computed from the children, the
\* child handles take a reference each, then the balance is asserted
NewNode3(m, left, value, right) ==
  LET p  == m.next
      m0 == Touch(Touch(m, left), right)
      h  == Max(HeightOf(m0, left), HeightOf(m0, right)) + 1
      m1 == [m0 EXCEPT !.nodes = (p :> [refcount |-> 0, height |-> h, left |-> left,
                                        right |-> right, value |-> value]) @@ @,
                       !.next = p + 1]
      m2 == IncRef(IncRef(m1, left), right)
      ok == Abs(BalanceOf(m2, left, right)) < 2
  IN [m |-> IF ok THEN m2 ELSE [m2 EXCEPT !.assertFail = TRUE],
      p |-> p]

----------------------------------------------------------------------------
(* Node construction and rebalancing *)

\* assert(!p || p->value < k)
AssertBelow(m, p, k) == p = Null \/ StrLess(ValueOf(m, p), k)
\* assert(!p || p->value > k)
AssertAbove(m, p, k) == p = Null \/ StrGreater(ValueOf(m, p), k)

\* the mk3 lambda: 4 subtrees and 3 keys, in order.  The two inner nodes are
\* built before the outer one; which inner node is built first is left open
\* by the language and only changes the addresses.
mk3(m, a, k1, b, k2, c, k3, d) ==
  LET ok == /\ AssertBelow(m, a, k1)
            /\ StrLess(k1, k2)
            /\ AssertBelow(m, b, k2)
            /\ StrLess(k2, k3)
            /\ AssertBelow(m, c, k3)
            /\ AssertAbove(m, d, k3)
      m0 == Touch(Touch(Touch(Touch(m, a), b), c), d)
      m1 == IF ok THEN m0 ELSE [m0 EXCEPT !.assertFail = TRUE]
      Outer(l, r) == NewNode3(r.m, l.p, k2, r.p)
      Inner(l) == Outer(l, NewNode3(l.m, c, k3, d))
  IN Inner(NewNode3(m1, a, k1, b))

\* mk2 that stores k1 in both nodes
mk2LosesKey(m, a, k1, b, k2, c, root_at_k1) ==
  LET AtK1(r) == NewNode3(r.m, a, k1, r.p)
      AtK2(l) == NewNode3(l.m, l.p, k1, c)
  IN IF root_at_k1
       THEN AtK1(NewNode3(m, b, k1, c))
       ELSE AtK2(NewNode3(m, a, k1, b))

\* the mk2 lambda: 3 subtrees and 2 keys, in order
mk2(m, a, k1, b, k2, c, root_at_k1) ==
  LET ok == /\ AssertBelow(m, a, k1)
            /\ StrLess(k1, k2)
            /\ AssertBelow(m, b, k2)
            /\ AssertAbove(m, c, k2)
      m0 == Touch(Touch(Touch(m, a), b), c)
      m1 == IF ok THEN m0 ELSE [m0 EXCEPT !.assertFail = TRUE]
      AtK1(r) == NewNode3(r.m, a, k1, r.p)
      AtK2(l) == NewNode3(l.m, l.p, k2, c)
  IN IF root_at_k1
       THEN AtK1(NewNode3(m1, b, k2, c))
       ELSE AtK2(NewNode3(m1, a, k1, b))

\* the rotations replaced by the plain construction of the node
RotateNoRebuild(m, left, value, right, balance) == NewNode3(m, left, value, right)

\* the rotations with the single rotation (mk2) taken in every case
RotateSingleOnly(m, left, value, right, balance) ==
  IF balance = -2
    THEN mk2(Deref(m, left), RawLeft(m, left), ValueOf(m, left),
             RawRight(m, left), value, right, TRUE)
    ELSE mk2(Deref(m, right), left, value, RawLeft(m, right), ValueOf(m, right),
             RawRight(m, right), FALSE)

\* the rotations of MakeAndRebalanceSlowPath, between the construction and
\* the destruction of the two holders
Rotate(m, left, value, right, balance) ==
  IF balance = -2
    THEN \* assert(left)
         LET m0 == Deref(IF left = Null THEN [m EXCEPT !.assertFail = TRUE] ELSE m, left)
         IN IF BalanceOf(m0, RawLeft(m0, left), RawRight(m0, left)) = 1
              THEN LET left_right == RawRight(m0, left)
                       \* assert(left_right)
                       m1 == Deref(IF left_right = Null
                                     THEN [m0 EXCEPT !.assertFail = TRUE] ELSE m0,
                                   left_right)
                   IN mk3(m1, RawLeft(m1, left), ValueOf(m1, left),
                          RawLeft(m1, left_right), ValueOf(m1, left_right),
                          RawRight(m1, left_right), value, right)
              ELSE mk2(m0, RawLeft(m0, left), ValueOf(m0, left),
                       RawRight(m0, left), value, right, TRUE)
    ELSE \* assert(balance == 2); assert(right)
         LET m0 == Deref(IF balance # 2 \/ right = Null
                           THEN [m EXCEPT !.assertFail = TRUE] ELSE m, right)
         IN IF BalanceOf(m0, RawLeft(m0, right), RawRight(m0, right)) = -1
              THEN LET right_left == RawLeft(m0, right)
                       \* assert(right_left)
                       m1 == Deref(IF right_left = Null
                                     THEN [m0 EXCEPT !.assertFail = TRUE] ELSE m0,
                                   right_left)
                   IN mk3(m1, left, value,
                          RawLeft(m1, right_left), ValueOf(m1, right_left),
                          RawRight(m1, right_left), ValueOf(m1, right), RawRight(m1, right))
              ELSE mk2(m0, left, value, RawLeft(m0, right), ValueOf(m0, right),
                       RawRight(m0, right), FALSE)

\* MakeAndRebalanceSlowPath without the two holders
MakeAndRebalanceSlowPathNoHolders(m, left, value, right, balance) ==
  Rotate([m EXCEPT !.slow = @ + 1], left, value, right, balance)

\* MakeAndRebalanceSlowPath whose holders are destroyed before the
\* replacement is built
MakeAndRebalanceSlowPathEarlyRelease(m, left, value, right, balance) ==
  LET Holders(m0) == IncRef(IncRef(m0, left), right)
      Release(m0) == DecRef(DecRef(m0, right), left)
  IN Rotate(Release([Holders(m) EXCEPT !.slow = @ + 1]), left, value, right, balance)

\* Node::MakeAndRebalanceSlowPath: left_holder and right_holder keep both
\* arguments referenced while the replacement is built and release them, in
\* reverse order of construction, once the result is computed
MakeAndRebalanceSlowPath(m, left, value, right, balance) ==
  LET Holders(m0) == IncRef(IncRef(m0, left), right)
      Release(r) == [m |-> DecRef(DecRef(r.m, right), left), p |-> r.p]
  IN Release(Rotate([Holders(m) EXCEPT !.slow = @ + 1], left, value, right, balance))

\* MakeAndRebalance that never rebalances
MakeAndRebalanceNoRotation(m, left, value, right) == NewNode3(m, left, value, right)

\* Node::MakeAndRebalance; balance & 3 on a two's complement int is balance mod 4
MakeAndRebalance(m, left, value, right) ==
  LET balance == BalanceOf(m, left, right)
  IN IF (balance % 4) # 2
       THEN NewNode3(m, left, value, right)
       ELSE MakeAndRebalanceSlowPath(m, left, value, right, balance)

----------------------------------------------------------------------------
(* AVLTree *)

RECURSIVE Rec(_, _, _)

\* Rec that links the new leaf into the existing node instead of rebuilding
\* the path: the insert of a mutable tree
RecInPlace(m, node, value) ==
  IF node = Null THEN NewLeaf(m, value)
  ELSE IF ~IsLive(m, node) THEN [m |-> [m EXCEPT !.ub = TRUE], p |-> Null]
  ELSE IF GreaterThan(ValueOf(m, node), value)
         THEN LET r == Rec(m, RawLeft(m, node), value)
              IN [m |-> IF r.p = RawLeft(m, node) THEN r.m
                        ELSE [IncRef(r.m, r.p) EXCEPT !.nodes[node].left = r.p],
                  p |-> node]
         ELSE LET r == Rec(m, RawRight(m, node), value)
              IN [m |-> IF r.p = RawRight(m, node) THEN r.m
                        ELSE [IncRef(r.m, r.p) EXCEPT !.nodes[node].right = r.p],
                  p |-> node]

\* Rec that hands a fresh copy of the untouched sibling to MakeAndRebalance
RecCopiesSibling(m, node, value) ==
  IF node = Null THEN NewLeaf(m, value)
  ELSE IF ~IsLive(m, node) THEN [m |-> [m EXCEPT !.ub = TRUE], p |-> Null]
  ELSE LET left  == RawLeft(m, node)
           right == RawRight(m, node)
           Copy(r, p) == IF p = Null THEN [m |-> r.m, p |-> Null]
                         ELSE NewNode3(r.m, RawLeft(r.m, p), ValueOf(r.m, p), RawRight(r.m, p))
           WithLeft(r, c) == MakeAndRebalance(c.m, r.p, ValueOf(c.m, node), c.p)
           WithRight(r, c) == MakeAndRebalance(c.m, c.p, ValueOf(c.m, node), r.p)
           NewLeft(r) == WithLeft(r, Copy(r, right))
           NewRight(r) == WithRight(r, Copy(r, left))
       IN IF GreaterThan(ValueOf(m, node), value)
            THEN NewLeft(Rec(m, left, value))
            ELSE NewRight(Rec(m, right, value))

\* AVLTree::Insert::R::Rec
Rec(m, node, value) ==
  IF node = Null THEN NewLeaf(m, value)
  ELSE IF ~IsLive(m, node) THEN [m |-> [m EXCEPT !.ub = TRUE], p |-> Null]
  ELSE LET left  == RawLeft(m, node)
           right == RawRight(m, node)
           NewLeft(r) == MakeAndRebalance(r.m, r.p, ValueOf(r.m, node), right)
           NewRight(r) == MakeAndRebalance(r.m, left, ValueOf(r.m, node), r.p)
       IN IF GreaterThan(ValueOf(m, node), value)
            THEN NewLeft(Rec(m, left, value))
            ELSE NewRight(Rec(m, right, value))

\* std::optional<NodePtr>::emplace(p): the old handle, if any, is destroyed
\* first, then the new handle is constructed from the raw pointer
Emplace(m, old, p) ==
  LET m1 == IF old = NullOpt THEN m ELSE DecRef(m, old)
  IN IncRef(m1, p)

\* the argument of root.emplace in AVLTree::Insert: the new tree is complete
\* before the root handle is touched
InsertBuild(m, r, value) ==
  IF r = NullOpt THEN NewLeaf(m, value) ELSE Rec(m, r, value)

\* AVLTree::Insert on a tree whose root handle is r (NullOpt when empty)
Insert(m, r, value) ==
  LET Replace(n) == [m |-> Emplace(n.m, r, n.p), p |-> n.p]
  IN Replace(InsertBuild(m, r, value))

\* a handle copy that takes no reference
NodePtrCopyNoIncRef(m, r) == m

\* NodePtr(const NodePtr&), run by the copy of an AVLTree
NodePtrCopy(m, r) == IF r = NullOpt THEN m ELSE IncRef(m, r)

\* ~NodePtr(), run by the destruction of an AVLTree
NodePtrDestroy(m, r) == IF r = NullOpt THEN m ELSE DecRef(m, r)

RECURSIVE LowerBoundLoop(_, _, _, _)

\* the loop with node->value <= str: a key equal to the query is passed over
LowerBoundLoopSkipsEqual(m, node, best, str) ==
  IF node = Null THEN best
  ELSE IF ~IsLive(m, node) THEN UB
  ELSE IF ~StrGreater(ValueOf(m, node), str)
         THEN LowerBoundLoop(m, RawRight(m, node), best, str)
         ELSE LowerBoundLoop(m, RawLeft(m, node), node, str)

\* the while loop of AVLTree::LowerBound
LowerBoundLoop(m, node, best, str) ==
  IF node = Null THEN best
  ELSE IF ~IsLive(m, node) THEN UB
  ELSE IF StrLess(ValueOf(m, node), str)
         THEN LowerBoundLoop(m, RawRight(m, node), best, str)
         ELSE LowerBoundLoop(m, RawLeft(m, node), node, str)

\* AVLTree::LowerBound: the node found, Null for none
LowerBound(m, r, str) ==
  IF r = NullOpt THEN Null
  ELSE IF ~IsLive(m, r) THEN UB
  ELSE LET best == IF StrGeq(ValueOf(m, r), str) THEN r ELSE Null
       IN LowerBoundLoop(m, r, best, str)

\* AVLTree::DoValidate::Checker: prev_seen is <<>> or <<key>>
NewChecker == [prev_seen |-> <<>>, total_height |-> 0, node_count |-> 0,
               aborted |-> FALSE, ub |-> FALSE, h |-> 0]

\* an order check that also rejects a key equal to the previous one
OrderAbortStrict(prev_seen, value) == prev_seen # <<>> /\ ~StrGreater(value, prev_seen[1])

\* the order check of Checker::Rec: abort if node->value < *prev_seen
OrderAbort(prev_seen, value) == prev_seen # <<>> /\ StrLess(value, prev_seen[1])

RECURSIVE CheckerRec(_, _, _, _)

\* AVLTree::DoValidate::Checker::Rec; h is the returned height, aborted says
\* that an assert or abort() ended the process
CheckerRec(m, node, depth, c) ==
  IF c.aborted THEN c
  ELSE IF node = Null THEN [c EXCEPT !.h = 0]
  ELSE IF ~IsLive(m, node) THEN [c EXCEPT !.aborted = TRUE, !.ub = TRUE]
  ELSE
    LET n  == m.nodes[node]
        c0 == [c EXCEPT !.total_height = @ + depth, !.node_count = @ + 1]
    IN IF n.refcount < 1 THEN [c0 EXCEPT !.aborted = TRUE]
       ELSE
         LET c1 == CheckerRec(m, n.left, depth + 1, c0)
         IN IF c1.aborted THEN c1
            ELSE IF OrderAbort(c1.prev_seen, n.value) THEN [c1 EXCEPT !.aborted = TRUE]
            ELSE
              LET left_height == c1.h
                  c2 == CheckerRec(m, n.right, depth + 1,
                                   [c1 EXCEPT !.prev_seen = <<n.value>>])
              IN IF c2.aborted THEN c2
                 ELSE
                   LET right_height    == c2.h
                       expected_height == Max(left_height, right_height) + 1
                       balance         == BalanceOf(m, n.left, n.right)
                   IN IF expected_height # n.height THEN [c2 EXCEPT !.aborted = TRUE]
                      ELSE IF Abs(balance) >= 2 THEN [c2 EXCEPT !.aborted = TRUE]
                      ELSE [c2 EXCEPT !.h = n.height]

\* AVLTree::Validate: aborted iff the call ends the process; ub iff it read
\* through a dangling pointer
Validate(m, r) ==
  IF r = NullOpt THEN NewChecker
  ELSE CheckerRec(m, r, 1, NewChecker)

\* a DoValidate that takes a NodePtr handle to the root and keeps it
ValidateEffectKeepsHandle(m, r) == IF r = NullOpt THEN m ELSE IncRef(m, r)

\* the heap after AVLTree::Validate: DoValidate and Checker::Rec walk the tree
\* through const Node* (Get, RawLeft, RawRight) and construct, copy or
\* destroy no NodePtr, so no refcount (the only mutable field) is written
ValidateEffect(m, r) == m

----------------------------------------------------------------------------
(* The program: AVLTree objects driven by a caller *)

NoLb == [t |-> 0, q |-> <<>>, r |-> Null, key |-> <<>>]
NoVal == [t |-> 0, aborted |-> FALSE, ub |-> FALSE]
NoDr == [p |-> 0, before |-> 0, after |-> 0, freed |-> FALSE, aborted |-> FALSE]

Range(s) == {s[i] : i \in 1..Len(s)}

Init ==
  /\ mem = EmptyMem
  /\ root = [t \in Trees |-> IF t = 1 THEN NullOpt ELSE NoTree]
  /\ hist = [t \in Trees |-> <<>>]
  /\ nins = [ins |-> 0, dup |-> 0]
  /\ lb = NoLb
  /\ val = NoVal
  /\ dr = NoDr
  /\ drv = Idle /\ cb = Idle /\ bt = Idle /\ tr = Idle /\ av = Idle /\ treap = Idle /\ splay = Idle /\ sig = Idle

\* t.Insert(k); max bounds the number of Insert calls of the run
InsertOp(t, k, max) ==
  /\ root[t] # NoTree
  /\ nins.ins < max
  /\ k \in Range(hist[t]) => nins.dup < MaxDups
  /\ \E r \in {Insert(mem, root[t], k)} :
       /\ mem' = r.m
       /\ root' = [root EXCEPT ![t] = r.p]
  /\ hist' = [hist EXCEPT ![t] = Append(@, k)]
  /\ nins' = [ins |-> nins.ins + 1,
              dup |-> IF k \in Range(hist[t]) THEN nins.dup + 1 ELSE nins.dup]
  /\ lb' = NoLb /\ val' = NoVal
  /\ UNCHANGED dr
  /\ UNCHANGED nonAvlVars

\* AVLTree d(s); : the copy keeps the version s denotes
CopyTree(s, d) ==
  /\ root[s] # NoTree
  /\ root[d] = NoTree
  /\ mem' = NodePtrCopy(mem, root[s])
  /\ root' = [root EXCEPT ![d] = root[s]]
  /\ hist' = [hist EXCEPT ![d] = hist[s]]
  /\ lb' = NoLb /\ val' = NoVal
  /\ UNCHANGED <<nins, dr>>
  /\ UNCHANGED nonAvlVars

\* ~AVLTree() of t
DestroyTree(t) ==
  /\ root[t] # NoTree
  /\ mem' = NodePtrDestroy(mem, root[t])
  /\ root' = [root EXCEPT ![t] = NoTree]
  /\ hist' = [hist EXCEPT ![t] = <<>>]
  /\ lb' = NoLb /\ val' = NoVal
  /\ UNCHANGED <<nins, dr>>
  /\ UNCHANGED nonAvlVars

\* t.LowerBound(q); the caller reads it->value of a non-null result
LowerBoundOp(t, q) ==
  /\ root[t] # NoTree
  /\ \E r \in {LowerBound(mem, root[t], q)} :
       lb' = [t |-> t, q |-> q, r |-> r, key |-> ValueOf(mem, r)]
  /\ val' = NoVal
  /\ UNCHANGED <<mem, root, hist, nins, dr>>
  /\ UNCHANGED nonAvlVars

\* t.Validate(false)
ValidateOp(t) ==
  /\ root[t] # NoTree
  /\ \E c \in {Validate(mem, root[t])} :
       val' = [t |-> t, aborted |-> c.aborted, ub |-> c.ub]
  /\ mem' = ValidateEffect(mem, root[t])
  /\ lb' = NoLb
  /\ UNCHANGED <<root, hist, nins, dr>>
  /\ UNCHANGED nonAvlVars

\* a caller that keeps several versions: it inserts, copies trees and
\* destroys them
Next ==
  \/ \E t \in Trees, k \in Keys : InsertOp(t, k, MaxInserts)
  \/ \E s \in Trees, d \in Trees : CopyTree(s, d)
  \/ \E t \in Trees : DestroyTree(t)

Spec == Init /\ [][Next]_vars

\* The driver of main(): one tree; the loop inserts and (in debug builds)
\* validates, and once the loop is left the tree is queried once.
MainInsert(k) == lb = NoLb /\ InsertOp(1, k, MaxMainInserts)

MainValidate == lb = NoLb /\ ValidateOp(1)

MainLowerBound(q) == lb = NoLb /\ LowerBoundOp(1, q)

NextMain ==
  \/ \E k \in Keys : MainInsert(k)
  \/ MainValidate
  \/ \E q \in Queries : MainLowerBound(q)

SpecMain == Init /\ [][NextMain]_vars

----------------------------------------------------------------------------
(* main(): the bulk-insertion loop, and SignalHelper::OnSIGINT on a flag *)

\* length of the text whose suffixes main() inserts
MaxText == 4
\* number of SIGINTs delivered to the process in one run
MaxSigints == 2

Bytes == {1, 2}
Texts == UNION {[1..n -> Bytes] : n \in 0..MaxText}

\* std::string_view{s}.substr(pos), pos counted from 0
Suffix(s, pos) == SubSeq(s, pos + 1, Len(s))

\* pc: "loop" at the loop condition, "emplace" inside Insert between the
\* construction of the new tree and root.emplace, "check" after Insert has
\* returned, "interrupted" after the break, "done" after the loop ran out.
\* sem: the count of sigint_sem; handler: the flag-setting handler is still
\* in the list; killed: the process was terminated
InitDriver ==
  /\ mem = EmptyMem
  /\ root = [t \in Trees |-> IF t = 1 THEN NullOpt ELSE NoTree]
  /\ hist = [t \in Trees |-> <<>>]
  /\ nins = [ins |-> 0, dup |-> 0]
  /\ lb = NoLb
  /\ val = NoVal
  /\ dr = NoDr
  /\ \E s \in Texts, debug \in BOOLEAN, intercept \in BOOLEAN :
       drv = [pc |-> "loop", s |-> s, pos |-> Len(s) - 1, stop_req |-> FALSE,
              sem |-> 0, handler |-> TRUE, sigs |-> 0, pend |-> Null,
              debug |-> debug, intercept |-> intercept, killed |-> FALSE]
  /\ cb = Idle /\ bt = Idle /\ tr = Idle /\ av = Idle /\ treap = Idle /\ splay = Idle /\ sig = Idle

\* the main thread is between the construction of the new tree and the
\* replacement of the root when it tests the flag
StopObservedMidInsert(d) == d.pc \in {"emplace", "check"} /\ d.stop_req

\* if (stop_req), the statement after locations.Insert(...)
StopObserved(d) == d.pc = "check" /\ d.stop_req

\* pos >= 0; locations.Insert(substr(pos)) up to the argument of emplace
DrvInsertBegin ==
  /\ ~drv.killed /\ drv.pc = "loop" /\ drv.pos >= 0
  /\ \E r \in {InsertBuild(mem, root[1], Suffix(drv.s, drv.pos))} :
       /\ mem' = r.m
       /\ drv' = [drv EXCEPT !.pc = "emplace", !.pend = r.p]
  /\ hist' = [hist EXCEPT ![1] = Append(@, Suffix(drv.s, drv.pos))]
  /\ nins' = [nins EXCEPT !.ins = @ + 1]
  /\ val' = NoVal
  /\ UNCHANGED <<root, lb, dr, cb, bt, tr, av, treap, splay, sig>>

\* root.emplace(...) and the return of Insert
DrvInsertEnd ==
  /\ ~drv.killed /\ drv.pc = "emplace"
  /\ mem' = Emplace(mem, root[1], drv.pend)
  /\ root' = [root EXCEPT ![1] = drv.pend]
  /\ drv' = [drv EXCEPT !.pc = "check", !.pend = Null]
  /\ UNCHANGED <<hist, nins, lb, val, dr, cb, bt, tr, av, treap, splay, sig>>

\* the flag is set: break
DrvBreak ==
  /\ ~drv.killed /\ StopObserved(drv)
  /\ drv' = [drv EXCEPT !.pc = "interrupted"]
  /\ UNCHANGED <<avlVars, cb, bt, tr, av, treap, splay, sig>>

\* the flag is not set: Validate(false) in a debug build, then pos--
DrvContinue ==
  /\ ~drv.killed /\ drv.pc = "check" /\ ~drv.stop_req
  /\ \E c \in {Validate(mem, root[1])} :
       /\ val' = IF drv.debug THEN [t |-> 1, aborted |-> c.aborted, ub |-> c.ub] ELSE val
       /\ drv' = [drv EXCEPT !.pc = "loop", !.pos = @ - 1,
                              !.killed = drv.debug /\ c.aborted]
  /\ mem' = IF drv.debug THEN ValidateEffect(mem, root[1]) ELSE mem
  /\ UNCHANGED <<root, hist, nins, lb, dr, cb, bt, tr, av, treap, splay, sig>>

\* pos < 0: the loop ran out
DrvLoopExit ==
  /\ ~drv.killed /\ drv.pc = "loop" /\ drv.pos < 0
  /\ drv' = [drv EXCEPT !.pc = "done"]
  /\ UNCHANGED <<avlVars, cb, bt, tr, av, treap, splay, sig>>

\* a SIGINT arrives: the installed handler posts the semaphore; without it
\* (sem_init failed) the default action terminates the process
Sigint ==
  /\ ~drv.killed /\ drv.sigs < MaxSigints
  /\ drv' = IF drv.intercept
              THEN [drv EXCEPT !.sigs = @ + 1, !.sem = @ + 1]
              ELSE [drv EXCEPT !.sigs = @ + 1, !.killed = TRUE]
  /\ UNCHANGED <<avlVars, cb, bt, tr, av, treap, splay, sig>>

\* the helper thread returns from sem_wait and runs the handlers: the flag
\* handler stores true and is dropped from the list (it returns false); with
\* no handler left the thread restores SIG_DFL, raises SIGINT and aborts
HelperThread ==
  /\ ~drv.killed /\ drv.sem > 0
  /\ drv' = IF drv.handler
              THEN [drv EXCEPT !.sem = @ - 1, !.stop_req = TRUE, !.handler = FALSE]
              ELSE [drv EXCEPT !.sem = @ - 1, !.killed = TRUE]
  /\ UNCHANGED <<avlVars, cb, bt, tr, av, treap, splay, sig>>

\* after the loop: locations.root.value() throws on an empty optional, then
\* LowerBound(q) is called and it->value is read
DrvQuery(q) ==
  /\ ~drv.killed /\ drv.pc \in {"interrupted", "done"} /\ lb = NoLb
  /\ IF root[1] = NullOpt
       THEN drv' = [drv EXCEPT !.killed = TRUE] /\ UNCHANGED avlVars
       ELSE LowerBoundOp(1, q)
  /\ UNCHANGED <<cb, bt, tr, av, treap, splay, sig>>

NextDriver ==
  \/ DrvInsertBegin
  \/ DrvInsertEnd
  \/ DrvBreak
  \/ DrvContinue
  \/ DrvLoopExit
  \/ Sigint
  \/ HelperThread
  \/ \E q \in Queries : DrvQuery(q)

SpecDriver == InitDriver /\ [][NextDriver]_vars

----------------------------------------------------------------------------
(* critbit-tree.h: CritBitTree, a mutable crit-bit tree owned through      *)
(* std::unique_ptr.  A link (NodeVariant) is a nested value.               *)

\* number of different keys handed to Insert in one run
MaxCbKeys == 4

\* inserted keys: byte strings without null bytes, the empty one included
CbBytes == {1, 2, 3}
CbKeys == UNION {[1..n -> CbBytes] : n \in 0..2}
CbQueries == CbKeys \cup {k \o <<2>> : k \in [1..2 -> CbBytes]}

\* std::nullopt of std::optional<size_t>
NoCrit == -1
\* ~size_t{0}; only compared with crit-bit indices
SizeMax == Pow2(30)

\* root_ == std::nullopt
CbNone == [kind |-> "none"]
\* a link holding a null unique_ptr
CbNull == [kind |-> "null"]
CbLeaf(key) == [kind |-> "ext", key |-> key]
\* children_[d] is child[d + 1]
CbInternal(crit, c0, c1) == [kind |-> "int", crit |-> crit, child |-> <<c0, c1>>]

\* detail::get_bit
GetBit(sv, bit_index) ==
  LET byte_index == bit_index \div 8
  IN IF byte_index >= Len(sv) THEN 0
     ELSE (sv[byte_index + 1] \div Pow2(7 - (bit_index % 8))) % 2

RECURSIVE Xor8(_, _, _)

\* c1 ^ c2 on the lowest n bits
Xor8(c1, c2, n) ==
  IF n = 0 THEN 0
  ELSE ((c1 + c2) % 2) + 2 * Xor8(c1 \div 2, c2 \div 2, n - 1)

\* std::countl_zero on an unsigned char (8 for 0; the portable fallback
\* loop of find_crit_bit does not terminate on 0)
CountlZero(d) == IF d = 0 THEN 8 ELSE 7 - FloorLog2(d)

\* detail::find_crit_bit
FindCritBit(s1, s2) ==
  LET min_len_bytes == Min(Len(s1), Len(s2))
      diff == {i \in 1..min_len_bytes : s1[i] # s2[i]}
  IN IF diff = {}
       THEN IF Len(s1) = Len(s2) THEN NoCrit
            ELSE LET c1 == IF Len(s1) > Len(s2) THEN s1[min_len_bytes + 1] ELSE 0
                     c2 == IF Len(s1) > Len(s2) THEN 0 ELSE s2[min_len_bytes + 1]
                 IN min_len_bytes * 8 + CountlZero(Xor8(c1, c2, 8))
       ELSE LET i == CHOOSE i \in diff : \A j \in diff : i <= j
            IN (i - 1) * 8 + CountlZero(Xor8(s1[i], s2[i], 8))

RECURSIVE CbDescend(_, _)

\* the descent loop of Insert and LowerBound: the path of (crit-bit index,
\* direction taken) and the link the loop ends at
CbDescend(node, key) ==
  IF node.kind = "int"
    THEN LET d == GetBit(key, node.crit)
             r == CbDescend(node.child[d + 1], key)
         IN [path |-> <<[crit |-> node.crit, dir |-> d]>> \o r.path, leaf |-> r.leaf]
    ELSE [path |-> <<>>, leaf |-> node]

RECURSIVE CbNodeAt(_, _)

\* the link reached from node by the directions dirs
CbNodeAt(node, dirs) ==
  IF dirs = <<>> THEN node ELSE CbNodeAt(node.child[Head(dirs) + 1], Tail(dirs))

RECURSIVE CbReplaceAt(_, _, _)

\* *insert_pos_ptr = new, for the link at the directions dirs
CbReplaceAt(node, dirs, new) ==
  IF dirs = <<>> THEN new
  ELSE [node EXCEPT !.child[Head(dirs) + 1] = CbReplaceAt(@, Tail(dirs), new)]

PathDirs(path) == [i \in 1..Len(path) |-> path[i].dir]

\* the restructuring with the new internal node always put in the place of
\* the leaf the descent ended at
CbRestructureAtLeaf(rt, key, path, crit) ==
  LET dirs == PathDirs(path)
      existing == CbNodeAt(rt, dirs)
  IN CbReplaceAt(rt, dirs,
                 IF GetBit(key, crit) = 0
                   THEN CbInternal(crit, CbLeaf(key), existing)
                   ELSE CbInternal(crit, existing, CbLeaf(key)))

\* steps 5 and 6 of Insert: the walk up the path to the insertion point, and
\* the new internal node put there over the new leaf and the subtree moved
\* out of that place
CbRestructure(rt, key, path, crit) ==
  LET new_key_bit == GetBit(key, crit)
      above == {i \in 1..Len(path) : path[i].crit < crit}
      \* the walk up stops at the lowest ancestor with a smaller index
      ipos == IF above = {} THEN 0 ELSE SetMax(above)
      dirs == PathDirs(SubSeq(path, 1, ipos))
      existing == CbNodeAt(rt, dirs)
  IN CbReplaceAt(rt, dirs,
                 IF new_key_bit = 0
                   THEN CbInternal(crit, CbLeaf(key), existing)
                   ELSE CbInternal(crit, existing, CbLeaf(key)))

\* Insert without the test for an identical key: the key is stored again,
\* under a node at the bit after its end
CbInsertNoIdentityCheck(rt, key) ==
  IF rt = CbNone THEN CbLeaf(key)
  ELSE LET d    == CbDescend(rt, key)
           crit == FindCritBit(key, d.leaf.key)
       IN CbRestructure(rt, key, d.path, IF crit = NoCrit THEN Len(key) * 8 ELSE crit)

\* CritBitTree::Insert: the tree after the call
CbInsert(rt, key) ==
  IF rt = CbNone THEN CbLeaf(key)
  ELSE LET d    == CbDescend(rt, key)
           crit == FindCritBit(key, d.leaf.key)
       IN IF crit = NoCrit THEN rt
          ELSE CbRestructure(rt, key, d.path, crit)

RECURSIVE CbFindMinLeaf(_)

\* CritBitTree::FindMinLeaf
CbFindMinLeaf(node) ==
  IF node.kind = "int" THEN CbFindMinLeaf(node.child[1]) ELSE node

RECURSIVE PopCrit(_, _), PopDir1(_)

\* while (!path.empty() && path.rbegin()->critbit_index_ > critbit) pop_back
PopCrit(path, critbit) ==
  IF path # <<>> /\ path[Len(path)].crit > critbit
    THEN PopCrit(SubSeq(path, 1, Len(path) - 1), critbit)
    ELSE path

\* while (!path.empty() && path.rbegin()->direction_taken_ == 1) pop_back
PopDir1(path) ==
  IF path # <<>> /\ path[Len(path)].dir = 1
    THEN PopDir1(SubSeq(path, 1, Len(path) - 1))
    ELSE path

\* nullptr, and a pointer to the key of a leaf
CbNullptr == [found |-> FALSE, key |-> <<>>]
CbFound(leaf) == [found |-> TRUE, key |-> leaf.key]

\* LowerBound that never climbs to a right sibling
CbLowerBoundNoClimb(rt, key, really_upper) ==
  IF rt = CbNone THEN CbNullptr
  ELSE
    LET d  == CbDescend(rt, key)
        co == FindCritBit(key, d.leaf.key)
    IN IF co = NoCrit /\ ~really_upper THEN CbFound(d.leaf)
       ELSE
         LET critbit == IF co = NoCrit THEN SizeMax ELSE co
             key_bit == IF co = NoCrit THEN 1 ELSE GetBit(key, critbit)
             p1 == PopCrit(d.path, critbit)
         IN IF key_bit = 1 THEN CbNullptr
            ELSE CbFound(CbFindMinLeaf(CbNodeAt(rt, PathDirs(p1))))

\* CritBitTree::LowerBound
CbLowerBound(rt, key, really_upper) ==
  IF rt = CbNone THEN CbNullptr
  ELSE
    LET d  == CbDescend(rt, key)
        co == FindCritBit(key, d.leaf.key)
    IN IF co = NoCrit /\ ~really_upper THEN CbFound(d.leaf)
       ELSE
         LET critbit == IF co = NoCrit THEN SizeMax ELSE co
             key_bit == IF co = NoCrit THEN 1 ELSE GetBit(key, critbit)
             p1 == PopCrit(d.path, critbit)
             p2 == IF key_bit = 1 THEN PopDir1(p1) ELSE p1
         IN IF key_bit = 1 /\ p2 = <<>> THEN CbNullptr
            ELSE
              LET p3 == IF key_bit = 1 THEN [p2 EXCEPT ![Len(p2)].dir = 1] ELSE p2
              IN CbFound(CbFindMinLeaf(CbNodeAt(rt, PathDirs(p3))))

RECURSIVE CbValidateRec(_)

\* CritBitTree::ValidateNodeRecursive: the representative key, and whether
\* abort() was called
CbValidateRec(node) ==
  IF node.kind # "int" THEN [aborted |-> node.kind # "ext",
                             rep |-> IF node.kind = "ext" THEN node.key ELSE <<>>]
  ELSE
    LET L == CbValidateRec(node.child[1])
        R == CbValidateRec(node.child[2])
        first_diff == FindCritBit(L.rep, R.rep)
    IN IF L.aborted \/ R.aborted THEN [aborted |-> TRUE, rep |-> L.rep]
       ELSE [aborted |-> \/ GetBit(L.rep, node.crit) # 0
                         \/ GetBit(R.rep, node.crit) # 1
                         \/ first_diff = NoCrit
                         \/ first_diff # node.crit,
             rep |-> L.rep]

\* CritBitTree::ValidateInvariants: TRUE iff it aborts
CbValidateInvariants(rt) == rt # CbNone /\ CbValidateRec(rt).aborted

CbNoLb == [q |-> <<>>, upper |-> FALSE, r |-> CbNullptr, asked |-> FALSE]
CbNoVal == [ran |-> FALSE, aborted |-> FALSE]
CbNoSucc == [ran |-> FALSE, it |-> <<>>, nextit |-> <<>>, test_s |-> <<>>,
             testit |-> CbNullptr, ub |-> FALSE, aborted |-> FALSE]

\* keys: the keys handed to Insert so far; last: <<k>> for the key k of the
\* latest Insert call
InitCb ==
  /\ cb = [root |-> CbNone, keys |-> {}, last |-> <<>>, lb |-> CbNoLb, val |-> CbNoVal,
           succ |-> CbNoSucc]
  /\ mem = EmptyMem
  /\ root = [t \in Trees |-> NoTree]
  /\ hist = [t \in Trees |-> <<>>]
  /\ nins = [ins |-> 0, dup |-> 0]
  /\ lb = NoLb /\ val = NoVal /\ dr = NoDr
  /\ drv = Idle /\ bt = Idle /\ tr = Idle /\ av = Idle /\ treap = Idle /\ splay = Idle /\ sig = Idle

\* tree.Insert(k)
CbInsertOp(k) ==
  /\ ~cb.lb.asked
  /\ Cardinality(cb.keys \cup {k}) <= MaxCbKeys
  /\ cb' = [cb EXCEPT !.root = CbInsert(cb.root, k), !.keys = @ \cup {k},
                       !.last = <<k>>, !.val = CbNoVal]
  /\ UNCHANGED <<avlVars, drv, bt, tr, av, treap, splay, sig>>

\* tree.LowerBound(q, really_upper)
CbLowerBoundOp(q, really_upper) ==
  /\ ~cb.lb.asked
  /\ cb' = [cb EXCEPT !.lb = [q |-> q, upper |-> really_upper, asked |-> TRUE,
                               r |-> CbLowerBound(cb.root, q, really_upper)]]
  /\ UNCHANGED <<avlVars, drv, bt, tr, av, treap, splay, sig>>

\* tree.ValidateInvariants()
CbValidateOp ==
  /\ ~cb.lb.asked
  /\ cb' = [cb EXCEPT !.val = [ran |-> TRUE, aborted |-> CbValidateInvariants(cb.root)]]
  /\ UNCHANGED <<avlVars, drv, bt, tr, av, treap, splay, sig>>

\* main(): std::string test_s{it->substr(0, lcp + 1)}; test_s[lcp]++.
\* substr stops at the end of *it, so when *it is a prefix of *nextit
\* test_s is *it and test_s[lcp] is the terminator of the std::string,
\* which must not be changed: test_s then reads as *it (its size is lcp),
\* or as *it followed by the byte written
CbTestStrings(it, nextit) ==
  LET lcp == Mismatch(it, nextit)
  IN IF lcp < Len(it)
       THEN {[SubSeq(it, 1, lcp + 1) EXCEPT ![lcp + 1] = (@ + 1) % 256]}
     ELSE {it, it \o <<1>>}

\* main(), one turn of the loop over the hits, *it being the stored key k:
\* nextit = LowerBound(*it, true), not null; abort() if it is *it;
\* testit = LowerBound(test_s); abort() if testit != nextit
CbSuccessorOp(k) ==
  /\ ~cb.lb.asked
  /\ k \in cb.keys
  /\ \E nextit \in {CbLowerBound(cb.root, k, TRUE)} :
       /\ nextit.found
       /\ \E test_s \in CbTestStrings(k, nextit.key) :
            \E testit \in {CbLowerBound(cb.root, test_s, FALSE)} :
              cb' = [cb EXCEPT
                       !.lb = [q |-> k, upper |-> TRUE, asked |-> TRUE, r |-> nextit],
                       !.succ = [ran |-> TRUE, it |-> k, nextit |-> nextit.key,
                                 test_s |-> test_s, testit |-> testit,
                                 ub |-> Mismatch(k, nextit.key) >= Len(k),
                                 aborted |-> nextit.key = k \/ testit # nextit]]
  /\ UNCHANGED <<avlVars, drv, bt, tr, av, treap, splay, sig>>

NextCb ==
  \/ \E k \in CbKeys : CbInsertOp(k)
  \/ \E k \in CbKeys : CbSuccessorOp(k)
  \/ \E q \in CbQueries, u \in BOOLEAN : CbLowerBoundOp(q, u)
  \/ CbValidateOp

SpecCb == InitCb /\ [][NextCb]_vars

----------------------------------------------------------------------------
(* The persistent B-tree (btree-persistent): refcounted nodes, Insert by   *)
(* path rewriting with a two-pass split, and the in-place fast path.      *)

\* Node::kWidth.  The source sets 19, which gives kLeafWidth 29; the model
\* takes the smallest width of the same form 4j+3, for which both widths
\* are odd as in the source and every split is reached with few keys.
kWidth == 3
\* sizeof(std::string_view) and sizeof(NodePtr) on the 64-bit targets
SizeofStringView == 16
SizeofNodePtr == 8
kInternalPointersOffset == kWidth * SizeofStringView
kInternalSize == (kWidth + 1) * SizeofNodePtr + kInternalPointersOffset
kLeafWidth == kInternalSize \div SizeofStringView

\* a heap of B-tree nodes; a node is [refcount, is_leaf, keys, kids], kids
\* being <<>> in a leaf.  freed: the deleted nodes; fast: number of Inserts
\* done by the fast path; splits: number of node splits
BtEmptyHeap == [nodes |-> EmptyFn, next |-> 1, freed |-> {}, ub |-> FALSE,
                assertFail |-> FALSE, fast |-> 0, splits |-> 0]

BtIsLive(h, p) == p \in DOMAIN h.nodes

\* NodePtr::IncRef (part_006); a null or dangling p is undefined behaviour
BtIncRef(h, p) ==
  IF ~BtIsLive(h, p) THEN [h EXCEPT !.ub = TRUE]
  ELSE [h EXCEPT !.nodes[p].refcount = @ + 1]

RECURSIVE BtDecRef(_, _), BtDecRefAll(_, _)

\* ~Node(): the child handles are destroyed in index order
BtDecRefAll(h, kids) ==
  IF kids = <<>> THEN h ELSE BtDecRefAll(BtDecRef(h, Head(kids)), Tail(kids))

\* NodePtr::DecRef (part_006)
BtDecRef(h, p) ==
  IF ~BtIsLive(h, p) THEN [h EXCEPT !.ub = TRUE]
  ELSE IF h.nodes[p].refcount - 1 # 0 THEN [h EXCEPT !.nodes[p].refcount = @ - 1]
  ELSE LET Free(h1) == [h1 EXCEPT !.nodes = [a \in (DOMAIN h1.nodes) \ {p} |-> h1.nodes[a]],
                                  !.freed = @ \cup {p}]
       IN Free(BtDecRefAll([h EXCEPT !.nodes[p].refcount = 0], h.nodes[p].kids))

RECURSIVE BtIncRefAll(_, _)

\* the placement-new loop of MakeInternal over the child handles
BtIncRefAll(h, kids) ==
  IF kids = <<>> THEN h ELSE BtIncRefAll(BtIncRef(h, Head(kids)), Tail(kids))

\* Node(size, is_leaf) with its asserts, then the keys
BtNewNode(h, is_leaf, keys, kids) ==
  LET p  == h.next
      ok == Len(keys) > 0 /\ Len(keys) <= (IF is_leaf THEN kLeafWidth ELSE kWidth)
  IN [h |-> [h EXCEPT !.nodes = (p :> [refcount |-> 0, is_leaf |-> is_leaf,
                                       keys |-> keys, kids |-> kids]) @@ @,
                      !.next = p + 1,
                      !.assertFail = @ \/ ~ok],
      p |-> p]

\* Node::MakeLeaf
BtMakeLeaf(h, keys) == BtNewNode(h, TRUE, keys, <<>>)

\* Node::MakeInternal: every child handle is copy-constructed
BtMakeInternal(h, keys, kids) ==
  LET Link(r) == [h |-> BtIncRefAll(r.h, kids), p |-> r.p]
  IN Link(BtNewNode([h EXCEPT !.assertFail = @ \/ Len(kids) # Len(keys) + 1],
                    FALSE, keys, kids))

\* Node::CanInsertInLeaf, Node::CanInsertInInternal; size is Len(keys)
CanInsertInLeaf(n) == Len(n.keys) < kLeafWidth
CanInsertInInternal(n) == Len(n.keys) < kWidth

\* the node behind a pointer; reading a freed node is undefined behaviour
\* and is flagged where the pointer is followed
BtNode(h, p) ==
  IF BtIsLive(h, p) THEN h.nodes[p]
  ELSE [refcount |-> 0, is_leaf |-> TRUE, keys |-> <<>>, kids |-> <<>>]

BtTouch(h, p) == IF BtIsLive(h, p) THEN h ELSE [h EXCEPT !.ub = TRUE]

\* Node::FindInsertPos: std::lower_bound on the sorted keys, counted from 0
FindInsertPos(keys, value) ==
  Cardinality({i \in 1..Len(keys) : StrLess(keys[i], value)})

\* span_ops::InsertOp and span_ops::ReplaceOp, pos counted from 0
SpanInsert(elements, pos, value) ==
  SubSeq(elements, 1, pos) \o <<value>> \o SubSeq(elements, pos + 1, Len(elements))
SpanReplace(elements, pos, value) == [elements EXCEPT ![pos + 1] = value]

\* SplitLeaf that cuts after the first key instead of in the middle
BtSplitLeafAtFirstKey(h, p) ==
  LET keys == BtNode(h, p).keys
      Right(l) == [l EXCEPT !.right = BtMakeLeaf(l.h, SubSeq(keys, 3, Len(keys)))]
      Pack(l) == [h |-> [l.right.h EXCEPT !.splits = @ + 1], left |-> l.left,
                  key |-> keys[2], right |-> l.right.p]
      Left(r) == Pack(Right([h |-> r.h, left |-> r.p, right |-> r]))
  IN Left(BtMakeLeaf(h, SubSeq(keys, 1, 1)))

\* SplitLeaf that leaves the separator key in the right half as well
BtSplitLeafKeepsMid(h, p) ==
  LET keys == BtNode(h, p).keys
      mid  == kLeafWidth \div 2
      Right(l) == [l EXCEPT !.right = BtMakeLeaf(l.h, SubSeq(keys, mid + 1, Len(keys)))]
      Pack(l) == [h |-> [l.right.h EXCEPT !.splits = @ + 1], left |-> l.left,
                  key |-> keys[mid + 1], right |-> l.right.p]
      Left(r) == Pack(Right([h |-> r.h, left |-> r.p, right |-> r]))
  IN Left(BtMakeLeaf(h, SubSeq(keys, 1, mid)))

\* Node::SplitLeaf: the halves are built left to right
BtSplitLeaf(h, p) ==
  LET keys == BtNode(h, p).keys
      mid  == kLeafWidth \div 2
      ok   == BtNode(h, p).is_leaf /\ Len(keys) = kLeafWidth
      Right(l) == [l EXCEPT !.right = BtMakeLeaf(l.h, SubSeq(keys, mid + 2, Len(keys)))]
      Pack(l) == [h |-> [l.right.h EXCEPT !.splits = @ + 1], left |-> l.left,
                  key |-> keys[mid + 1], right |-> l.right.p]
      Left(r) == Pack(Right([h |-> r.h, left |-> r.p, right |-> r]))
  IN Left(BtMakeLeaf([h EXCEPT !.assertFail = @ \/ ~ok], SubSeq(keys, 1, mid)))

\* Node::SplitInternal: mk(0, mid), keys[mid], mk(mid + 1, kWidth)
BtSplitInternal(h, p) ==
  LET keys == BtNode(h, p).keys
      kids == BtNode(h, p).kids
      mid  == kWidth \div 2
      ok   == ~BtNode(h, p).is_leaf /\ Len(keys) = kWidth
      Right(l) == [l EXCEPT !.right = BtMakeInternal(l.h, SubSeq(keys, mid + 2, kWidth),
                                                     SubSeq(kids, mid + 2, kWidth + 1))]
      Pack(l) == [h |-> [l.right.h EXCEPT !.splits = @ + 1], left |-> l.left,
                  key |-> keys[mid + 1], right |-> l.right.p]
      Left(r) == Pack(Right([h |-> r.h, left |-> r.p, right |-> r]))
  IN Left(BtMakeInternal([h EXCEPT !.assertFail = @ \/ ~ok],
                         SubSeq(keys, 1, mid), SubSeq(kids, 1, mid + 1)))

\* kid->is_leaf ? kid->SplitLeaf() : kid->SplitInternal()
BtSplit(h, p) == IF BtNode(h, p).is_leaf THEN BtSplitLeaf(h, p) ELSE BtSplitInternal(h, p)

\* Node::ReplaceChild: the temporary NodePtr{new_child} lives until the new
\* node is built
BtReplaceChild(h, p, child_index, new_child) ==
  LET n == BtNode(h, p)
      ok == ~n.is_leaf /\ child_index <= Len(n.keys) /\ new_child # Null
      Drop(r) == [h |-> BtDecRef(r.h, new_child), p |-> r.p]
  IN Drop(BtMakeInternal(BtIncRef([h EXCEPT !.assertFail = @ \/ ~ok], new_child),
                         n.keys, SpanReplace(n.kids, child_index, new_child)))

\* Node::InsertIntoLeaf
BtInsertIntoLeaf(h, p, pos, value) ==
  LET n == BtNode(h, p)
      ok == n.is_leaf /\ Len(n.keys) < kLeafWidth
  IN BtMakeLeaf([h EXCEPT !.assertFail = @ \/ ~ok], SpanInsert(n.keys, pos, value))

\* Node::InsertIntoInternal: the temporaries NodePtr{split.right} and
\* NodePtr{split.left} live until the new node is built
BtInsertIntoInternal(h, p, pos, split) ==
  LET n == BtNode(h, p)
      ok == ~n.is_leaf /\ Len(n.keys) < kWidth /\ pos <= Len(n.keys)
      h0 == BtIncRef(BtIncRef([h EXCEPT !.assertFail = @ \/ ~ok], split.right), split.left)
      Drop(r) == [h |-> BtDecRef(BtDecRef(r.h, split.left), split.right), p |-> r.p]
  IN Drop(BtMakeInternal(h0, SpanInsert(n.keys, pos, split.key),
                         SpanInsert(SpanReplace(n.kids, pos, split.right), pos, split.left)))

\* Node::MakeInternalFromSplit: kids[2] holds both halves while the node is
\* built and is destroyed in reverse order
BtMakeInternalFromSplit(h, split) ==
  LET h0 == BtIncRef(BtIncRef(h, split.left), split.right)
      Drop(r) == [h |-> BtDecRef(BtDecRef(r.h, split.right), split.left), p |-> r.p]
  IN Drop(BtMakeInternal(h0, <<split.key>>, <<split.left, split.right>>))

\* kid->is_leaf ? !kid->CanInsertInLeaf() : !kid->CanInsertInInternal()
BtIsFull(n) == IF n.is_leaf THEN ~CanInsertInLeaf(n) ELSE ~CanInsertInInternal(n)

RECURSIVE BtRec(_, _, _, _)

\* BTree::Insert::R::Rec; p is Null for the "split needed" signal
BtRec(h, p, value, need_split) ==
  LET n   == BtNode(h, p)
      pos == FindInsertPos(n.keys, value)
      kid == n.kids[pos + 1]
      \* need_split: split the kid, install the halves in a copy of n held
      \* by n_cleanup, recurse into the half on the path, rewrite the copy
      Installed(sp) == BtInsertIntoInternal(sp.h, p, pos, sp)
      Hold(r) == [h |-> BtIncRef(r.h, r.p), p |-> r.p]
      Down(r) == [n1 |-> r.p,
                  pos |-> FindInsertPos(BtNode(r.h, r.p).keys, value),
                  k |-> BtRec(r.h,
                              BtNode(r.h, r.p).kids[FindInsertPos(BtNode(r.h, r.p).keys,
                                                                  value) + 1],
                              value, TRUE)]
      Cleanup(d, rc) == [h |-> BtDecRef(rc.h, d.n1), p |-> rc.p]
      Up(d) == Cleanup(d, BtReplaceChild(d.k.h, d.n1, d.pos, d.k.p))
      \* first pass
      Retry(r2) == BtReplaceChild([r2.h EXCEPT !.assertFail = @ \/ r2.p = Null],
                                  p, pos, r2.p)
      After(r) ==
        IF r.p # Null THEN BtReplaceChild(r.h, p, pos, r.p)
        ELSE IF ~(~BtNode(r.h, kid).is_leaf /\ CanInsertInInternal(BtNode(r.h, kid)))
               THEN [h |-> r.h, p |-> Null]
               ELSE Retry(BtRec(r.h, kid, value, TRUE))
  IN IF ~BtIsLive(h, p) THEN [h |-> [h EXCEPT !.ub = TRUE], p |-> Null]
     ELSE IF n.is_leaf
       THEN IF ~CanInsertInLeaf(n)
              THEN [h |-> [h EXCEPT !.assertFail = @ \/ need_split], p |-> Null]
              ELSE BtInsertIntoLeaf(h, p, pos, value)
     ELSE IF need_split
       THEN Up(Down(Hold(Installed(
              BtSplit([BtTouch(h, kid) EXCEPT !.assertFail =
                         @ \/ ~CanInsertInInternal(n) \/ ~BtIsFull(BtNode(h, kid))],
                      kid)))))
       ELSE After(BtRec(BtTouch(h, kid), kid, value, FALSE))

RECURSIVE BtFastLoop(_, _, _)

\* the fast path without the test of the refcounts on the way down
BtFastLoopNoRefcountTest(h, n, value) ==
  LET node  == BtNode(h, n)
      pos   == FindInsertPos(node.keys, value)
      child == node.kids[pos + 1]
      Link(r) == [h |-> [BtIncRef(BtDecRef(r.h, child), r.p)
                           EXCEPT !.nodes[n].kids[pos + 1] = r.p, !.fast = @ + 1],
                  ok |-> TRUE]
  IN IF ~BtIsLive(h, n) THEN [h |-> [h EXCEPT !.ub = TRUE], ok |-> FALSE]
     ELSE IF BtNode(h, child).is_leaf
       THEN IF ~CanInsertInLeaf(BtNode(h, child)) THEN [h |-> h, ok |-> FALSE]
            ELSE Link(BtInsertIntoLeaf(h, child,
                                       FindInsertPos(BtNode(h, child).keys, value), value))
     ELSE BtFastLoop(BtTouch(h, child), child, value)

\* the loop of TryFastPath: while (n->refcount == 1); the new leaf is built,
\* then the child handle in n is destroyed and constructed anew in place
BtFastLoop(h, n, value) ==
  LET node  == BtNode(h, n)
      pos   == FindInsertPos(node.keys, value)
      child == node.kids[pos + 1]
      Link(r) == [h |-> [BtIncRef(BtDecRef(r.h, child), r.p)
                           EXCEPT !.nodes[n].kids[pos + 1] = r.p, !.fast = @ + 1],
                  ok |-> TRUE]
  IN IF ~BtIsLive(h, n) THEN [h |-> [h EXCEPT !.ub = TRUE], ok |-> FALSE]
     ELSE IF node.refcount # 1 THEN [h |-> h, ok |-> FALSE]
     ELSE IF BtNode(h, child).is_leaf
       THEN IF ~CanInsertInLeaf(BtNode(h, child)) THEN [h |-> h, ok |-> FALSE]
            ELSE Link(BtInsertIntoLeaf(h, child,
                                       FindInsertPos(BtNode(h, child).keys, value), value))
     ELSE BtFastLoop(BtTouch(h, child), child, value)

\* BTree::Insert::R::TryFastPath
BtTryFastPath(h, n, value) ==
  IF BtNode(h, n).is_leaf THEN [h |-> BtTouch(h, n), ok |-> FALSE]
  ELSE BtFastLoop(h, n, value)

\* root.emplace(n): the old handle, if any, is destroyed, then the new one
\* is constructed
BtEmplace(h, old, p) ==
  BtIncRef(IF old = NullOpt THEN h ELSE BtDecRef(h, old), p)

\* BTree::Insert after the fast path has declined: Rec, and on the "split
\* needed" signal at the root either the second pass or the split of the root
BtInsertSlow(h, rt, value) ==
  LET Grow(sp) ==
        \* split.left or split.right = Rec(NodePtr{half}.Get(), value, true):
        \* the temporary handle is destroyed after the assignment
        LET Half(half, r) == [h |-> BtDecRef(r.h, half), p |-> r.p]
            NewHalf(half) == Half(half, BtRec(BtIncRef(sp.h, half), half, value, TRUE))
            FromLeft(l) == BtMakeInternalFromSplit(l.h, [sp EXCEPT !.left = l.p])
            FromRight(r) == BtMakeInternalFromSplit(r.h, [sp EXCEPT !.right = r.p])
        IN IF StrLess(value, sp.key) THEN FromLeft(NewHalf(sp.left))
           ELSE FromRight(NewHalf(sp.right))
      Second(r) ==
        IF r.p # Null THEN r
        ELSE IF ~BtIsFull(BtNode(r.h, rt)) THEN BtRec(r.h, rt, value, TRUE)
        ELSE Grow(BtSplit(r.h, rt))
  IN Second(BtRec(h, rt, value, FALSE))

\* BTree::Insert on a tree whose root handle is rt (NullOpt when empty);
\* fastpath is ENABLE_BTREE_FASTPATH
BtInsert(h, rt, value, fastpath) ==
  LET Replace(r) == [h |-> BtEmplace(r.h, rt, r.p), p |-> r.p]
      Choose(fp) == IF fp.ok THEN [h |-> fp.h, p |-> rt]
                    ELSE Replace(BtInsertSlow(h, rt, value))
  IN IF rt = NullOpt THEN Replace(BtMakeLeaf(h, <<value>>))
     ELSE IF fastpath THEN Choose(BtTryFastPath(h, rt, value))
     ELSE Replace(BtInsertSlow(h, rt, value))

\* bounds of the B-tree runs: trees (the built one and its copies), keys,
\* Inserts into copies, copies made
NumBtTrees == 2
MaxBtKeys == 16
MaxBtInserts == 2
MaxBtCopies == 1

BtTrees == 1..NumBtTrees

RECURSIVE Gcd(_, _)
Gcd(a, b) == IF b = 0 THEN a ELSE Gcd(b, a % b)

\* orders in which main() may meet the suffixes of a text, the keys being
\* <<1>> .. <<MaxBtKeys>>: the key at place i is i * s modulo MaxBtKeys + 1
\* for a stride s without common factor with the modulus (s = 1 ascending,
\* s = MaxBtKeys descending)
BtOrders ==
  { [i \in 1..MaxBtKeys |-> <<(i * s) % (MaxBtKeys + 1)>>] :
      s \in {x \in 1..MaxBtKeys : Gcd(x, MaxBtKeys + 1) = 1} }

\* main(): BTree locations, empty; no copy of it made yet
InitBt ==
  /\ \E text \in BtOrders, fastpath \in BOOLEAN :
       bt = [h |-> BtEmptyHeap,
             root |-> [t \in BtTrees |-> NullOpt],
             live |-> {1},
             keys |-> [t \in BtTrees |-> {}],
             text |-> text,
             pos |-> [t \in BtTrees |-> 0],
             nfree |-> 0, ncopies |-> 0,
             fastpath |-> fastpath,
             last |-> [op |-> "init", t |-> 1, fast |-> FALSE]]
  /\ mem = EmptyMem
  /\ root = [t \in Trees |-> NoTree]
  /\ hist = [t \in Trees |-> <<>>]
  /\ nins = [ins |-> 0, dup |-> 0]
  /\ lb = NoLb /\ val = NoVal /\ dr = NoDr
  /\ drv = Idle /\ cb = Idle /\ tr = Idle /\ av = Idle /\ treap = Idle /\ splay = Idle /\ sig = Idle

\* main(): locations.Insert(std::string_view{s}.substr(pos)), the next
\* suffix of the text; an Insert into a copy goes on in the same text from
\* where the copy was taken
BtInsertOp(t) ==
  /\ t \in bt.live
  /\ bt.pos[t] < Len(bt.text)
  /\ t # 1 => bt.nfree < MaxBtInserts
  /\ ~bt.h.ub /\ ~bt.h.assertFail
  /\ \E r \in {BtInsert(bt.h, bt.root[t], bt.text[bt.pos[t] + 1], bt.fastpath)} :
       bt' = [bt EXCEPT !.h = r.h, !.root[t] = r.p,
                        !.keys[t] = @ \cup {bt.text[bt.pos[t] + 1]},
                        !.pos[t] = @ + 1,
                        !.nfree = IF t = 1 THEN @ ELSE @ + 1,
                        !.last = [op |-> "insert", t |-> t,
                                  fast |-> r.h.fast > bt.h.fast]]
  /\ UNCHANGED <<avlVars, drv, cb, tr, av, treap, splay, sig>>

\* BTree b{a}: the implicit copy constructor copies std::optional<NodePtr>
BtCopyTree(a, b) ==
  /\ a \in bt.live
  /\ b \notin bt.live
  /\ bt.ncopies < MaxBtCopies
  /\ ~bt.h.ub /\ ~bt.h.assertFail
  /\ bt' = [bt EXCEPT !.h = IF bt.root[a] = NullOpt THEN @ ELSE BtIncRef(@, bt.root[a]),
                      !.root[b] = bt.root[a],
                      !.live = @ \cup {b},
                      !.keys[b] = bt.keys[a],
                      !.pos[b] = bt.pos[a],
                      !.ncopies = @ + 1,
                      !.last = [op |-> "copy", t |-> b, fast |-> FALSE]]
  /\ UNCHANGED <<avlVars, drv, cb, tr, av, treap, splay, sig>>

\* ~BTree(): std::optional<NodePtr> destroys the root handle it holds
BtDestroyTree(t) ==
  /\ t \in bt.live
  /\ ~bt.h.ub /\ ~bt.h.assertFail
  /\ bt' = [bt EXCEPT !.h = IF bt.root[t] = NullOpt THEN @ ELSE BtDecRef(@, bt.root[t]),
                      !.root[t] = NullOpt,
                      !.live = @ \ {t},
                      !.keys[t] = {},
                      !.pos[t] = 0,
                      !.last = [op |-> "destroy", t |-> t, fast |-> FALSE]]
  /\ UNCHANGED <<avlVars, drv, cb, tr, av, treap, splay, sig>>

NextBt ==
  \/ \E t \in BtTrees : BtInsertOp(t)
  \/ \E a, b \in BtTrees : BtCopyTree(a, b)
  \/ \E t \in BtTrees : BtDestroyTree(t)

SpecBt == InitBt /\ [][NextBt]_vars

----------------------------------------------------------------------------
(* The trie of suffix-critbit-tree.cc: leaves hold the keys, a node holds  *)
(* the depth of the byte it branches on, the set of bytes in use and one  *)
(* child per byte in use, in the order of the bytes.                      *)

\* bounds of the trie runs: keys stored, length of a key
MaxTrKeys == 3
MaxTrLen == 3
\* the largest value of a byte: uint8_t scaled down from 255, byte 0 being
\* what ReadString returns past the end of a string
TrMaxByte == 2
TrBytes == 0..TrMaxByte
TrKeys == UNION {[1..n -> TrBytes] : n \in 1..MaxTrLen}
TrQueries == UNION {[1..n -> TrBytes] : n \in 0..MaxTrLen}

\* NodePtr: empty, a Leaf or a Node
TrEmpty == [kind |-> "empty"]
TrLeaf(data) == [kind |-> "leaf", data |-> data]
\* Node::Allocate(size, depth) for as many children as given: the
\* constructor takes the size as a uint8_t, which holds 0 .. TrMaxByte
TrNode(depth, chars, children) ==
  [kind |-> "node", size |-> Len(children) % (TrMaxByte + 1), depth |-> depth,
   chars |-> chars, children |-> children]

RECURSIVE TrTruncated(_)

\* a node below t records a size that is not the number of its children:
\* GetChildren() is then a span shorter than the children, and what
\* indexing it past its end yields is undefined
TrTruncated(t) ==
  /\ t.kind = "node"
  /\ \/ t.size # Len(t.children)
     \/ \E i \in DOMAIN t.children : TrTruncated(t.children[i])

\* ReadString(data, depth), depth counted from 0
ReadString(data, depth) == IF depth < Len(data) THEN data[depth + 1] ELSE 0

\* ArrayIndex::HasElement and ArrayIndex::NumElementsBefore over the set of
\* bytes in use
HasElement(chars, pos) == pos \in chars
NumElementsBefore(chars, pos) == Cardinality({c \in chars : c < pos})

\* Node::FindChild: the place of the child among the children, counted
\* from 1, or 0 for nullptr
FindChild(node, ch) ==
  IF ~HasElement(node.chars, ch) THEN 0 ELSE NumElementsBefore(node.chars, ch) + 1

RECURSIVE GetSmallestLeaf(_)

\* the loops over GetSmallestChild down to a leaf
GetSmallestLeaf(t) ==
  IF t.kind = "leaf" THEN t ELSE GetSmallestLeaf(t.children[1])

RECURSIVE FindLCPLeafRec(_, _)

\* the loop of FindLCPLeaf: the leaf it stops at
FindLCPLeafRec(t, data) ==
  IF t.kind = "leaf" THEN t
  ELSE IF FindChild(t, ReadString(data, t.depth)) = 0 THEN GetSmallestLeaf(t)
  ELSE FindLCPLeafRec(t.children[FindChild(t, ReadString(data, t.depth))], data)

\* FindLCPLeaf: the leaf and the length of the prefix it shares with data
FindLCPLeaf(t, data) ==
  LET Pair(leaf) == [leaf |-> leaf, lcp |-> Mismatch(data, leaf.data)]
  IN Pair(FindLCPLeafRec(t, data))

\* Node::MakeFrom2; bad: assert(ch1 != ch2) fails
MakeFrom2(depth, ch1, child1, ch2, child2) ==
  [t |-> TrNode(depth, {ch1, ch2},
                IF ch1 > ch2 THEN <<child2, child1>> ELSE <<child1, child2>>),
   bad |-> ch1 = ch2]

\* Node::MakeInserting; bad: one of its asserts fails
MakeInserting(prev_node, ch, pos, leaf) ==
  [t |-> TrNode(prev_node.depth, prev_node.chars \cup {ch},
                SubSeq(prev_node.children, 1, pos) \o <<leaf>>
                  \o SubSeq(prev_node.children, pos + 1, Len(prev_node.children))),
   bad |-> HasElement(prev_node.chars, ch)
           \/ pos # NumElementsBefore(prev_node.chars, ch)]

RECURSIVE TrInsertAt(_, _, _)

\* the loop of Insert from a place on: the subtree that replaces *place;
\* at is what FindLCPLeaf returned.  bad: an assert fails or a null place
\* is followed
TrInsertAt(t, data, at) ==
  LET ch  == ReadString(data, t.depth)
      idx == FindChild(t, ch)
      Put(r) == [t |-> [t EXCEPT !.children[idx] = r.t], bad |-> r.bad]
      Flag(r, b) == [r EXCEPT !.bad = @ \/ b]
  IN IF t.kind = "leaf" \/ t.depth > at.lcp
       THEN MakeFrom2(at.lcp, ReadString(at.leaf.data, at.lcp), t,
                      ReadString(data, at.lcp), TrLeaf(data))
     ELSE IF t.depth = at.lcp
       THEN Flag(MakeInserting(t, ch, NumElementsBefore(t.chars, ch), TrLeaf(data)),
                 idx # 0)
     ELSE IF idx = 0 THEN [t |-> t, bad |-> TRUE]
     ELSE Put(TrInsertAt(t.children[idx], data, at))

\* Insert(root_place, data); bad also when assert(lcp < data.size()) fails
TrInsert(t, data) ==
  LET Flag(r, b) == [r EXCEPT !.bad = @ \/ b]
      From(at) == Flag(TrInsertAt(t, data, at), ~(at.lcp < Len(data)))
  IN IF t.kind = "empty" THEN [t |-> TrLeaf(data), bad |-> FALSE]
     ELSE From(FindLCPLeaf(t, data))

TrNullptr == [found |-> FALSE, data |-> <<>>]
TrFound(leaf) == [found |-> TRUE, data |-> leaf.data]

\* if (leaf->data > data) return leaf; return nullptr
TrLeafAnswer(leaf, data) ==
  IF StrGreater(leaf.data, data) THEN TrFound(leaf) ELSE TrNullptr

RECURSIVE TrLowerBoundRec(_, _, _)

\* LowerBound::R::Rec.  The loop over the bytes after ch leaves child_place
\* as FindChild(ch) had set it when ch is the largest byte
TrLowerBoundRec(t, data, lcp) ==
  LET ch    == IF t.depth > lcp THEN 0 ELSE ReadString(data, t.depth)
      idx   == FindChild(t, ch)
      later == {c \in t.chars : c > ch}
      next  == IF ch + 1 > TrMaxByte THEN idx
               ELSE IF later = {} THEN 0
               ELSE FindChild(t, CHOOSE c \in later : \A d \in later : c <= d)
      Rest  == IF next = 0 THEN TrNullptr
               ELSE TrLeafAnswer(GetSmallestLeaf(t.children[next]), data)
      Try(r) == IF r.found THEN r ELSE Rest
  IN IF t.kind = "leaf" THEN TrLeafAnswer(t, data)
     ELSE IF idx # 0 THEN Try(TrLowerBoundRec(t.children[idx], data, lcp))
     ELSE Rest

\* LowerBound(root_place, data) on a trie that is not empty
TrLowerBound(t, data) == TrLowerBoundRec(t, data, FindLCPLeaf(t, data).lcp)

TrNoLb == [asked |-> FALSE, q |-> <<>>, r |-> TrNullptr]

\* main(): NodePtr locations
InitTrie ==
  /\ tr = [root |-> TrEmpty, keys |-> {}, bad |-> FALSE, lb |-> TrNoLb]
  /\ mem = EmptyMem
  /\ root = [t \in Trees |-> NoTree]
  /\ hist = [t \in Trees |-> <<>>]
  /\ nins = [ins |-> 0, dup |-> 0]
  /\ lb = NoLb /\ val = NoVal /\ dr = NoDr
  /\ drv = Idle /\ cb = Idle /\ bt = Idle /\ av = Idle /\ treap = Idle /\ splay = Idle /\ sig = Idle

\* one key is a prefix of the other (equal keys included)
TrPrefixRelated(a, b) == Mismatch(a, b) = Min(Len(a), Len(b))

\* Insert(&locations, l), no stored key being a prefix of l or l of it: the
\* suffixes all end in the only \0 of the text
TrInsertOp(k) ==
  /\ ~tr.lb.asked
  /\ ~tr.bad /\ ~TrTruncated(tr.root)
  /\ Cardinality(tr.keys) < MaxTrKeys
  /\ \A s \in tr.keys : ~TrPrefixRelated(s, k)
  /\ \E r \in {TrInsert(tr.root, k)} :
       tr' = [tr EXCEPT !.root = r.t, !.keys = @ \cup {k}, !.bad = r.bad]
  /\ UNCHANGED <<avlVars, drv, cb, bt, av, treap, splay, sig>>

\* LowerBound(&locations, q), after at least one Insert
TrLowerBoundOp(q) ==
  /\ ~tr.lb.asked
  /\ ~tr.bad /\ ~TrTruncated(tr.root)
  /\ tr.root.kind # "empty"
  /\ tr' = [tr EXCEPT !.lb = [asked |-> TRUE, q |-> q, r |-> TrLowerBound(tr.root, q)]]
  /\ UNCHANGED <<avlVars, drv, cb, bt, av, treap, splay, sig>>

NextTrie ==
  \/ \E k \in TrKeys : TrInsertOp(k)
  \/ \E q \in TrQueries : TrLowerBoundOp(q)

SpecTrie == InitTrie /\ [][NextTrie]_vars

----------------------------------------------------------------------------
(* The AVL tree of suffix-avl.cc: nodes are changed in place, each holds   *)
(* its balance, and avl::tree_path holds the links from the root down to   *)
(* the current node.                                                       *)

\* bound of the runs: keys inserted
MaxAvKeys == 6

AvKeys == {<<i>> : i \in 1..MaxAvKeys}

\* Tree locations: no node; single and double count swap_child and
\* swap_grand_child
AvEmpty == [nodes |-> <<>>, root |-> Null, assertFail |-> FALSE, ub |-> FALSE,
            single |-> 0, double |-> 0]

\* a node read through a null pointer
AvGarbage == [data |-> <<>>, childs |-> <<Null, Null>>, balance |-> 0]

AvNode(s, p) == IF p = Null THEN AvGarbage ELSE s.nodes[p]

\* Node(data): no children, balance 0
AvNewNode(s, data) ==
  [s EXCEPT !.nodes = Append(@, [data |-> data, childs |-> <<Null, Null>>, balance |-> 0])]

\* assert_local_balance
AvLocalBalance(n) == -2 < n.balance /\ n.balance < 2

\* balance_towards
balance_towards(n, idx) == IF idx = 1 THEN n.balance ELSE -n.balance

\* is_imbalanced: (balance & 3) == 2, on a two's complement int
is_imbalanced(balance) == balance % 4 = 2

\* *link = p, link being &root or &parent->childs[idx]
AvSetLink(s, link, p) ==
  IF link.p = Null THEN [s EXCEPT !.root = p]
  ELSE [s EXCEPT !.nodes[link.p].childs[link.idx + 1] = p]

\* tree_path::swap_child at node n, reached through link
swap_child(s, link, n, idx) ==
  LET other_idx == 1 - idx
      child == AvNode(s, n).childs[idx + 1]
      child_child == AvNode(s, child).childs[other_idx + 1]
      ok == /\ balance_towards(AvNode(s, n), idx) = 2
            /\ balance_towards(AvNode(s, child), idx) >= 0
            /\ AvLocalBalance(AvNode(s, child))
      reduce == balance_towards(AvNode(s, child), idx) = 1
      nb == IF reduce THEN 0 ELSE IF idx = 1 THEN 1 ELSE -1
      cb2 == IF reduce THEN 0 ELSE IF idx = 1 THEN -1 ELSE 1
      Relink(t) == [t EXCEPT !.nodes[n].childs[idx + 1] = child_child,
                             !.nodes[child].childs[other_idx + 1] = n]
  IN IF child = Null THEN [s |-> [s EXCEPT !.ub = TRUE], rv |-> FALSE]
     ELSE [s |-> Relink(AvSetLink([s EXCEPT !.assertFail = @ \/ ~ok,
                                            !.single = @ + 1,
                                            !.nodes[n].balance = nb,
                                            !.nodes[child].balance = cb2],
                                  link, child)),
           rv |-> reduce]

\* swap_grand_child that leaves all three balances at 0
swap_grand_child_flat(s, link, n, idx) ==
  LET other_idx == 1 - idx
      n2 == AvNode(s, n).childs[idx + 1]
      n21 == AvNode(s, n2).childs[other_idx + 1]
      n211 == AvNode(s, n21).childs[other_idx + 1]
      n212 == AvNode(s, n21).childs[idx + 1]
      Relink(t) == [t EXCEPT !.nodes[n21].childs[other_idx + 1] = n,
                             !.nodes[n21].childs[idx + 1] = n2,
                             !.nodes[n].childs[idx + 1] = n211,
                             !.nodes[n2].childs[other_idx + 1] = n212]
  IN Relink(AvSetLink([s EXCEPT !.double = @ + 1,
                                !.nodes[n21].balance = 0,
                                !.nodes[n].balance = 0,
                                !.nodes[n2].balance = 0],
                      link, n21))

\* tree_path::swap_grand_child at node n, reached through link
swap_grand_child(s, link, n, idx) ==
  LET other_idx == 1 - idx
      n2 == AvNode(s, n).childs[idx + 1]
      n21 == AvNode(s, n2).childs[other_idx + 1]
      n211 == AvNode(s, n21).childs[other_idx + 1]
      n212 == AvNode(s, n21).childs[idx + 1]
      ok == /\ balance_towards(AvNode(s, n), idx) = 2
            /\ balance_towards(AvNode(s, n2), idx) < 0
      b == balance_towards(AvNode(s, n21), idx)
      nb == IF b > 0 THEN (IF idx = 1 THEN -1 ELSE 1) ELSE 0
      n2b == IF b < 0 THEN (IF idx = 1 THEN 1 ELSE -1) ELSE 0
      Relink(t) == [t EXCEPT !.nodes[n21].childs[other_idx + 1] = n,
                             !.nodes[n21].childs[idx + 1] = n2,
                             !.nodes[n].childs[idx + 1] = n211,
                             !.nodes[n2].childs[other_idx + 1] = n212]
  IN IF n2 = Null \/ n21 = Null THEN [s EXCEPT !.ub = TRUE]
     ELSE Relink(AvSetLink([s EXCEPT !.assertFail = @ \/ ~ok,
                                     !.double = @ + 1,
                                     !.nodes[n21].balance = 0,
                                     !.nodes[n].balance = nb,
                                     !.nodes[n2].balance = n2b],
                           link, n21))

\* tree_path::balance_locally
balance_locally(s, link, n, balance, just_inserted) ==
  LET idx == IF balance > 1 THEN 1 ELSE 0
      child == AvNode(s, n).childs[idx + 1]
      towards == balance_towards(AvNode(s, child), idx)
      s1 == [s EXCEPT !.assertFail = @ \/ (just_inserted /\ towards = 0),
                      !.ub = @ \/ child = Null]
      Checked(r) == [s |-> [r.s EXCEPT !.assertFail = @ \/ (just_inserted /\ ~r.rv)],
                     rv |-> r.rv]
  IN IF towards >= 0 THEN Checked(swap_child(s1, link, n, idx))
     ELSE [s |-> swap_grand_child(s1, link, n, idx), rv |-> TRUE]

\* Insert, the loop of move_down: the nodes from the root to the one that
\* gets the new leaf, each with the index of the child taken
RECURSIVE AvPath(_, _, _)
AvPath(s, n, data) ==
  IF n = Null THEN <<>>
  ELSE LET idx == IF StrLess(s.nodes[n].data, data) THEN 1 ELSE 0
       IN <<[n |-> n, idx |-> idx]>> \o AvPath(s, s.nodes[n].childs[idx + 1], data)

\* incoming_link() of the node at place i of the path
AvLinkOf(path, i) ==
  IF i = 1 THEN [p |-> Null, idx |-> 0]
  ELSE [p |-> path[i - 1].n, idx |-> path[i - 1].idx]

\* tree_path::insert_leaf, the while loop at the node at place i of the
\* path; move_up_return_idx gives the index taken at the parent
RECURSIVE AvInsertLoop(_, _, _)
AvInsertLoop(s, path, i) ==
  LET ex_leaf == path[i].n
      balance_delta == IF path[i].idx = 1 THEN 1 ELSE -1
      s1 == [s EXCEPT !.nodes[ex_leaf].balance = @ + balance_delta]
      balance == s1.nodes[ex_leaf].balance
  IN IF is_imbalanced(balance)
       THEN balance_locally(s1, AvLinkOf(path, i), ex_leaf, balance, TRUE).s
     ELSE IF balance = 0 THEN s1
     ELSE IF i = 1 THEN s1
     ELSE AvInsertLoop(s1, path, i - 1)

\* tree_path::insert_leaf below the last node of the path
insert_leaf(s, path, new_leaf) ==
  LET i == Len(path)
      ex_leaf == path[i].n
      idx == path[i].idx
      ok == AvLocalBalance(s.nodes[ex_leaf]) /\ s.nodes[ex_leaf].childs[idx + 1] = Null
  IN AvInsertLoop([s EXCEPT !.assertFail = @ \/ ~ok,
                            !.nodes[ex_leaf].childs[idx + 1] = new_leaf],
                  path, i)

\* Insert(Tree* tree, std::string_view data)
AvInsert(s, data) ==
  LET new_node == Len(s.nodes) + 1
  IN IF s.root = Null THEN [AvNewNode(s, data) EXCEPT !.root = new_node]
     ELSE insert_leaf(AvNewNode(s, data), AvPath(s, s.root, data), new_node)

\* main(): Tree locations
InitAv ==
  /\ av = [t |-> AvEmpty, keys |-> {}]
  /\ mem = EmptyMem
  /\ root = [t \in Trees |-> NoTree]
  /\ hist = [t \in Trees |-> <<>>]
  /\ nins = [ins |-> 0, dup |-> 0]
  /\ lb = NoLb /\ val = NoVal /\ dr = NoDr
  /\ drv = Idle /\ cb = Idle /\ bt = Idle /\ tr = Idle /\ treap = Idle /\ splay = Idle /\ sig = Idle

\* main(): Insert(&locations, suffix), the suffixes of a text being
\* distinct
AvInsertOp(k) ==
  /\ k \notin av.keys
  /\ ~av.t.assertFail /\ ~av.t.ub
  /\ av' = [t |-> AvInsert(av.t, k), keys |-> av.keys \cup {k}]
  /\ UNCHANGED <<avlVars, drv, cb, bt, tr, treap, splay, sig>>

NextAv == \E k \in AvKeys : AvInsertOp(k)

SpecAv == InitAv /\ [][NextAv]_vars

----------------------------------------------------------------------------
(* The treap of suffix-treap.cc: a search tree on the keys that is a       *)
(* min-heap on the priorities, which each node draws from one generator.   *)

\* bound of the runs: keys inserted
MaxTreapKeys == 6

TreapKeys == {<<i>> : i \in 1..MaxTreapKeys}

\* the generator kept to its low prng_mod_power bits: 12 bits here for the
\* 48 of the source, multiplier, increment and seed reduced to these bits
\* (the low bits of the source's sequence are this sequence)
prng_mod_power == 12
prng_mult == 1645
prng_add == 11
prng_seed == 2814

\* Node::NextRandom
NextRandom(rnd) == (prng_mult * rnd + prng_add) % (2 ^ prng_mod_power)

\* Treap locations: root = nullptr; static rng
TreapEmpty == [nodes |-> <<>>, root |-> Null,
               rng |-> NextRandom(NextRandom(NextRandom(prng_seed))),
               splits |-> 0]

\* Node(value): left{}, right{}, rng = NextRandom(rng), priority = rng
TreapNewNode(s, value) ==
  [s EXCEPT !.rng = NextRandom(s.rng),
            !.nodes = Append(@, [value |-> value, left |-> Null, right |-> Null,
                                 priority |-> NextRandom(s.rng)])]

\* *place = p, place being &root (n = Null) or &n->left or &n->right
TreapSetPlace(s, place, p) ==
  IF place.n = Null THEN [s EXCEPT !.root = p]
  ELSE IF place.side = "left" THEN [s EXCEPT !.nodes[place.n].left = p]
  ELSE [s EXCEPT !.nodes[place.n].right = p]

\* Split::Rec
RECURSIVE TreapSplitRec(_, _, _, _, _)
TreapSplitRec(s, value, node, place_left, place_right) ==
  IF node = Null
    THEN TreapSetPlace(TreapSetPlace(s, place_left, Null), place_right, Null)
  ELSE IF StrLess(s.nodes[node].value, value)
    THEN TreapSplitRec(TreapSetPlace(s, place_left, node), value, s.nodes[node].right,
                       [n |-> node, side |-> "right"], place_right)
  ELSE TreapSplitRec(TreapSetPlace(s, place_right, node), value, s.nodes[node].left,
                     place_left, [n |-> node, side |-> "left"])

\* Insert that never splits: the new node becomes a leaf
RECURSIVE TreapInsertLoopAtLeaf(_, _, _, _)
TreapInsertLoopAtLeaf(s, new_node, parent_place, node) ==
  LET value == s.nodes[new_node].value
      next == IF StrLess(s.nodes[node].value, value)
                THEN [n |-> node, side |-> "right"]
                ELSE [n |-> node, side |-> "left"]
  IN IF node = Null THEN TreapSetPlace(s, parent_place, new_node)
     ELSE TreapInsertLoopAtLeaf(s, new_node, next,
                                IF next.side = "right" THEN s.nodes[node].right
                                ELSE s.nodes[node].left)

\* Insert, the while loop: the split if a node of greater priority is met,
\* then *parent_place = new_node
RECURSIVE TreapInsertLoop(_, _, _, _)
TreapInsertLoop(s, new_node, parent_place, node) ==
  LET value == s.nodes[new_node].value
      priority == s.nodes[new_node].priority
      next == IF StrLess(s.nodes[node].value, value)
                THEN [n |-> node, side |-> "right"]
                ELSE [n |-> node, side |-> "left"]
  IN IF node = Null THEN TreapSetPlace(s, parent_place, new_node)
     ELSE IF s.nodes[node].priority > priority
       THEN TreapSetPlace(TreapSplitRec([s EXCEPT !.splits = @ + 1], value, node,
                                        [n |-> new_node, side |-> "left"],
                                        [n |-> new_node, side |-> "right"]),
                          parent_place, new_node)
     ELSE TreapInsertLoop(s, new_node, next,
                          IF next.side = "right" THEN s.nodes[node].right
                          ELSE s.nodes[node].left)

\* Treap::Insert
TreapInsert(s, value) ==
  TreapInsertLoop(TreapNewNode(s, value), Len(s.nodes) + 1,
                  [n |-> Null, side |-> "root"], s.root)

\* main(): Treap locations
InitTreap ==
  /\ treap = [t |-> TreapEmpty, keys |-> {}]
  /\ mem = EmptyMem
  /\ root = [t \in Trees |-> NoTree]
  /\ hist = [t \in Trees |-> <<>>]
  /\ nins = [ins |-> 0, dup |-> 0]
  /\ lb = NoLb /\ val = NoVal /\ dr = NoDr
  /\ drv = Idle /\ cb = Idle /\ bt = Idle /\ tr = Idle /\ av = Idle /\ splay = Idle /\ sig = Idle

\* main(): locations.Insert(suffix), the suffixes of a text being distinct
TreapInsertOp(k) ==
  /\ k \notin treap.keys
  /\ treap' = [t |-> TreapInsert(treap.t, k), keys |-> treap.keys \cup {k}]
  /\ UNCHANGED <<avlVars, drv, cb, bt, tr, av, splay, sig>>

NextTreap == \E k \in TreapKeys : TreapInsertOp(k)

SpecTreap == InitTreap /\ [][NextTreap]_vars

----------------------------------------------------------------------------
(* The splay tree of suffix-splay.cc: three ways to insert, a LowerBound   *)
(* that moves the node it finds to the root, and RemoveRoot.               *)

\* bounds of the runs: keys inserted, calls of LowerBound, of RemoveRoot
MaxSplayKeys == 4
MaxSplayQueries == 2
MaxSplayRemoves == 1

SplayKeys == {<<2 * i>> : i \in 1..MaxSplayKeys}
\* strings asked for: the keys, and strings between, below and above them
SplayQueries == {<<i>> : i \in 1..(2 * MaxSplayKeys + 1)}

\* --insert-op=
SplayInsertOps == {"splay", "move-to-top", "naive"}

\* SplayTree locations: root = nullptr; left, right and place_lower_bound
\* are the locals of LowerBound, unset outside of it; zigs counts the
\* zig-zig steps of SplitOp
SplayEmpty == [nodes |-> <<>>, root |-> Null, deleted |-> {},
               left |-> UB, right |-> UB, plb |-> UB, assertFail |-> FALSE,
               zigs |-> 0]

\* Node(value): left{}, right{}
SplayNewNode(s, value) ==
  [s EXCEPT !.nodes = Append(@, [value |-> value, left |-> Null, right |-> Null])]

\* &root, and the locals &left and &right of LowerBound
SplayRootPlace == [n |-> Null, side |-> "root"]
SplayLocal(side) == [n |-> Null, side |-> side]
\* &n->left, &n->right
SplayField(n, side) == [n |-> n, side |-> side]

\* *place = p
SplaySetPlace(s, place, p) ==
  IF place.n = Null
    THEN IF place.side = "root" THEN [s EXCEPT !.root = p]
         ELSE IF place.side = "left" THEN [s EXCEPT !.left = p]
         ELSE [s EXCEPT !.right = p]
  ELSE IF place.side = "left" THEN [s EXCEPT !.nodes[place.n].left = p]
  ELSE [s EXCEPT !.nodes[place.n].right = p]

\* *place
SplayGetPlace(s, place) ==
  IF place.n = Null
    THEN IF place.side = "root" THEN s.root
         ELSE IF place.side = "left" THEN s.left
         ELSE s.right
  ELSE IF place.side = "left" THEN s.nodes[place.n].left
  ELSE s.nodes[place.n].right

\* InsertMoveToTop, Split::Rec
RECURSIVE SplaySplitRec(_, _, _, _, _)
SplaySplitRec(s, value, node, place_left, place_right) ==
  IF node = Null
    THEN SplaySetPlace(SplaySetPlace(s, place_left, Null), place_right, Null)
  ELSE IF StrLess(s.nodes[node].value, value)
    THEN SplaySplitRec(SplaySetPlace(s, place_left, node), value, s.nodes[node].right,
                       SplayField(node, "right"), place_right)
  ELSE SplaySplitRec(SplaySetPlace(s, place_right, node), value, s.nodes[node].left,
                     place_left, SplayField(node, "left"))

\* SplayTree::InsertMoveToTop
InsertMoveToTop(s, value) ==
  LET node == Len(s.nodes) + 1
  IN [SplaySplitRec(SplayNewNode(s, value), value, s.root,
                    SplayField(node, "left"), SplayField(node, "right"))
        EXCEPT !.root = node]

\* SplayTree::NonSplayUnbalancedInsert, the while loop
RECURSIVE SplayBottomPlace(_, _, _, _)
SplayBottomPlace(s, value, parent_place, node) ==
  IF node = Null THEN parent_place
  ELSE IF StrLess(s.nodes[node].value, value)
    THEN SplayBottomPlace(s, value, SplayField(node, "right"), s.nodes[node].right)
  ELSE SplayBottomPlace(s, value, SplayField(node, "left"), s.nodes[node].left)

\* SplayTree::NonSplayUnbalancedInsert
NonSplayUnbalancedInsert(s, value) ==
  SplaySetPlace(SplayNewNode(s, value),
                SplayBottomPlace(s, value, SplayRootPlace, s.root),
                Len(s.nodes) + 1)

RECURSIVE SplitOpRec(_, _, _, _, _, _)
RECURSIVE GoLeft(_, _, _, _, _, _, _, _)
RECURSIVE GoRight(_, _, _, _, _, _, _, _)

\* SplitOp::GoLeft<comparison_known, value_is_less>
GoLeft(s, comparison_known, value_is_less, value, rt, l, place_left, place_right) ==
  LET s1 == SplaySetPlace(s, place_right, rt)
  IN IF ~comparison_known /\ l = Null
       THEN SplaySetPlace([s1 EXCEPT !.nodes[rt].left = Null], place_left, Null)
     ELSE SplitOpRec(s1, value,
                     IF comparison_known THEN value_is_less
                     ELSE StrLess(value, s1.nodes[l].value),
                     l, place_left, SplayField(rt, "left"))

\* SplitOp::GoRight<comparison_known, value_is_less>
GoRight(s, comparison_known, value_is_less, value, rt, r, place_left, place_right) ==
  LET s1 == SplaySetPlace(s, place_left, rt)
  IN IF ~comparison_known /\ r = Null
       THEN [SplaySetPlace(s1, place_right, Null) EXCEPT !.nodes[rt].right = Null]
     ELSE SplitOpRec(s1, value,
                     IF comparison_known THEN value_is_less
                     ELSE StrLess(value, s1.nodes[r].value),
                     r, SplayField(rt, "right"), place_right)

\* SplitOp::Rec that descends to the left child as if the value were
\* less than it (GoLeft<true, true>)
SplitOpRecWrongKnown(s, value, value_is_less, rt, place_left, place_right) ==
  LET l == s.nodes[rt].left
      r == s.nodes[rt].right
      ZigLeft == [s EXCEPT !.nodes[rt].left = s.nodes[l].right,
                           !.nodes[l].right = rt,
                           !.zigs = @ + 1]
      ZigRight == [s EXCEPT !.nodes[rt].right = s.nodes[r].left,
                            !.nodes[r].left = rt,
                            !.zigs = @ + 1]
  IN IF value_is_less
       THEN IF l # Null
              THEN IF StrLess(value, s.nodes[l].value)
                     THEN GoLeft(ZigLeft, FALSE, FALSE, value, l, s.nodes[l].left,
                                 place_left, place_right)
                   ELSE GoLeft(s, TRUE, TRUE, value, rt, l, place_left, place_right)
            ELSE GoLeft(s, FALSE, FALSE, value, rt, l, place_left, place_right)
     ELSE IF r # Null
            THEN IF StrGreater(value, s.nodes[r].value)
                   THEN GoRight(ZigRight, FALSE, FALSE, value, r, s.nodes[r].right,
                                place_left, place_right)
                 ELSE GoRight(s, TRUE, TRUE, value, rt, r, place_left, place_right)
          ELSE GoRight(s, FALSE, FALSE, value, rt, r, place_left, place_right)

\* SplitOp::Rec
SplitOpRec(s, value, value_is_less, rt, place_left, place_right) ==
  LET l == s.nodes[rt].left
      r == s.nodes[rt].right
      ZigLeft == [s EXCEPT !.nodes[rt].left = s.nodes[l].right,
                           !.nodes[l].right = rt,
                           !.zigs = @ + 1]
      ZigRight == [s EXCEPT !.nodes[rt].right = s.nodes[r].left,
                            !.nodes[r].left = rt,
                            !.zigs = @ + 1]
  IN IF value_is_less
       THEN IF l # Null
              THEN IF StrLess(value, s.nodes[l].value)
                     THEN GoLeft(ZigLeft, FALSE, FALSE, value, l, s.nodes[l].left,
                                 place_left, place_right)
                   ELSE GoLeft(s, TRUE, FALSE, value, rt, l, place_left, place_right)
            ELSE GoLeft(s, FALSE, FALSE, value, rt, l, place_left, place_right)
     ELSE IF r # Null
            THEN IF StrGreater(value, s.nodes[r].value)
                   THEN GoRight(ZigRight, FALSE, FALSE, value, r, s.nodes[r].right,
                                place_left, place_right)
                 ELSE GoRight(s, TRUE, TRUE, value, rt, r, place_left, place_right)
          ELSE GoRight(s, FALSE, FALSE, value, rt, r, place_left, place_right)

\* SplayTree::Insert
SplayInsert(s, value) ==
  LET node == Len(s.nodes) + 1
      s1 == SplayNewNode(s, value)
  IN [(IF s.root # Null
         THEN SplitOpRec(s1, value, StrLess(value, s.nodes[s.root].value), s.root,
                         SplayField(node, "left"), SplayField(node, "right"))
       ELSE s1)
        EXCEPT !.root = node]

\* Split::Rec of LowerBound that sends a node equal to str to the left
RECURSIVE SplayLbSplitRecStrict(_, _, _, _, _)
SplayLbSplitRecStrict(s, str, rt, place_left, place_right) ==
  IF rt = Null
    THEN SplaySetPlace(SplaySetPlace(s, place_right, Null), place_left, Null)
  ELSE IF ~StrGreater(s.nodes[rt].value, str)
    THEN SplayLbSplitRecStrict(SplaySetPlace(s, place_left, rt), str, s.nodes[rt].right,
                               SplayField(rt, "right"), place_right)
  ELSE SplayLbSplitRecStrict([SplaySetPlace(s, place_right, rt) EXCEPT !.plb = place_right],
                             str, s.nodes[rt].left, place_left, SplayField(rt, "left"))

\* LowerBound, Split::Rec; *place_lower_bound is s.plb
RECURSIVE SplayLbSplitRec(_, _, _, _, _)
SplayLbSplitRec(s, str, rt, place_left, place_right) ==
  IF rt = Null
    THEN SplaySetPlace(SplaySetPlace(s, place_right, Null), place_left, Null)
  ELSE IF StrLess(s.nodes[rt].value, str)
    THEN SplayLbSplitRec(SplaySetPlace(s, place_left, rt), str, s.nodes[rt].right,
                         SplayField(rt, "right"), place_right)
  ELSE SplayLbSplitRec([SplaySetPlace(s, place_right, rt) EXCEPT !.plb = place_right],
                       str, s.nodes[rt].left, place_left, SplayField(rt, "left"))

\* SplayTree::LowerBound: the tree after the call and the node returned
SplayLowerBound(s, str) ==
  LET Leave(t) == [t EXCEPT !.left = UB, !.right = UB, !.plb = UB]
      Top(t) ==
        LET new_root == SplayGetPlace(t, t.plb)
            t1 == [t EXCEPT !.assertFail = @ \/ t.nodes[new_root].left # Null]
            t2 == SplaySetPlace(t1, t.plb, t.nodes[new_root].right)
        IN [s |-> Leave([t2 EXCEPT !.nodes[new_root].left = t2.left,
                                   !.nodes[new_root].right = t2.right,
                                   !.root = new_root]),
            r |-> new_root]
      After(t) ==
        IF t.plb = SplayRootPlace
          THEN [s |-> Leave([t EXCEPT !.assertFail =
                                         @ \/ t.left # t.root \/ t.right # Null]),
                r |-> IF t.root # Null /\ StrGeq(t.nodes[t.root].value, str)
                        THEN t.root ELSE Null]
        ELSE Top(t)
  IN After(SplayLbSplitRec([s EXCEPT !.plb = SplayRootPlace], str, s.root,
                           SplayLocal("left"), SplayLocal("right")))

RECURSIVE SplayJoinRecLeft(_, _, _, _)
RECURSIVE SplayJoinRecRight(_, _, _, _)

\* RemoveRoot, Join::RecLeft
SplayJoinRecLeft(s, place_root, left, right) ==
  IF left = Null THEN SplaySetPlace(s, place_root, right)
  ELSE SplayJoinRecRight(SplaySetPlace(s, place_root, left),
                         SplayField(left, "right"), s.nodes[left].right, right)

\* RemoveRoot, Join::RecRight
SplayJoinRecRight(s, place_root, left, right) ==
  IF right = Null THEN SplaySetPlace(s, place_root, left)
  ELSE SplayJoinRecLeft(SplaySetPlace(s, place_root, right),
                        SplayField(right, "left"), left, s.nodes[right].left)

\* SplayTree::RemoveRoot
RemoveRoot(s) ==
  IF s.root = Null THEN s
  ELSE [SplayJoinRecLeft(s, SplayRootPlace, s.nodes[s.root].left, s.nodes[s.root].right)
          EXCEPT !.deleted = @ \cup {s.root}]

SplayNoLast == [op |-> "init", arg |-> <<>>, r |-> Null]

\* main(): insert_op as the command line chose it; SplayTree locations
InitSplay ==
  /\ \E op \in SplayInsertOps :
       splay = [t |-> SplayEmpty, keys |-> {}, insert_op |-> op,
                nq |-> 0, nrm |-> 0, last |-> SplayNoLast]
  /\ mem = EmptyMem
  /\ root = [t \in Trees |-> NoTree]
  /\ hist = [t \in Trees |-> <<>>]
  /\ nins = [ins |-> 0, dup |-> 0]
  /\ lb = NoLb /\ val = NoVal /\ dr = NoDr
  /\ drv = Idle /\ cb = Idle /\ bt = Idle /\ tr = Idle /\ av = Idle /\ treap = Idle /\ sig = Idle

\* main(): (locations.*insert_op)(suffix), the suffixes of a text being
\* distinct; the loop of insertions comes before the first LowerBound
SplayInsertOp(k) ==
  /\ k \notin splay.keys
  /\ splay.nq = 0 /\ splay.nrm = 0
  /\ ~splay.t.assertFail
  /\ splay' = [splay EXCEPT
                 !.t = IF splay.insert_op = "splay" THEN SplayInsert(@, k)
                       ELSE IF splay.insert_op = "move-to-top" THEN InsertMoveToTop(@, k)
                       ELSE NonSplayUnbalancedInsert(@, k),
                 !.keys = @ \cup {k},
                 !.last = [op |-> "insert", arg |-> k, r |-> Len(splay.t.nodes) + 1]]
  /\ UNCHANGED <<avlVars, drv, cb, bt, tr, av, treap, sig>>

\* locations.LowerBound(q)
SplayLowerBoundOp(q) ==
  /\ splay.nq < MaxSplayQueries
  /\ ~splay.t.assertFail
  /\ \E res \in {SplayLowerBound(splay.t, q)} :
       splay' = [splay EXCEPT !.t = res.s, !.nq = @ + 1,
                              !.last = [op |-> "lower_bound", arg |-> q, r |-> res.r]]
  /\ UNCHANGED <<avlVars, drv, cb, bt, tr, av, treap, sig>>

\* locations.RemoveRoot()
SplayRemoveRootOp ==
  /\ splay.nrm < MaxSplayRemoves
  /\ ~splay.t.assertFail
  /\ splay.t.root # Null
  /\ splay' = [splay EXCEPT !.t = RemoveRoot(@),
                            !.keys = @ \ {splay.t.nodes[splay.t.root].value},
                            !.nrm = @ + 1,
                            !.last = [op |-> "remove_root", arg |-> <<>>, r |-> Null]]
  /\ UNCHANGED <<avlVars, drv, cb, bt, tr, av, treap, sig>>

NextSplay ==
  \/ \E k \in SplayKeys : SplayInsertOp(k)
  \/ \E q \in SplayQueries : SplayLowerBoundOp(q)
  \/ SplayRemoveRootOp

SpecSplay == InitSplay /\ [][NextSplay]_vars

----------------------------------------------------------------------------
(* SignalHelper of demo-helper.h: the list of handlers, handlers_lock, the *)
(* semaphore the signal handler posts and the thread that runs the         *)
(* handlers.  A call of handlers.insert or handlers.erase, and the         *)
(* thread's pass over the list, each take more than one step.              *)

\* bounds of the runs: calls of OnSIGINT, SIGINTs delivered
MaxSigRegs == 2
MaxSigSignals == 2

\* before the first call of OnSIGINT: no State, no thread, SIGINT has its
\* default action.  pc is where the registering thread is ("insert" inside
\* handlers.insert, "erase" inside a Cleanup with the lock taken), tpc
\* where the handler thread is ("wait" in sem_wait, "lock" before the
\* lock_guard, "iter" in the loop over the handlers); race: two threads
\* were inside the list at once
SigStart(failed) ==
  [setup_done |-> FALSE, sem_init_failed |-> failed, installed |-> FALSE,
   sigint_sem |-> 0, handlers_lock |-> "none", handlers |-> <<>>,
   pc |-> "idle", cur |-> 0, cleanups |-> {}, regs |-> 0,
   tpc |-> "none", i |-> 0, at_least_once |-> FALSE,
   sigs |-> 0, race |-> FALSE, killed |-> FALSE]

InitSig ==
  /\ \E failed \in BOOLEAN : sig = SigStart(failed)
  /\ mem = EmptyMem
  /\ root = [t \in Trees |-> NoTree]
  /\ hist = [t \in Trees |-> <<>>]
  /\ nins = [ins |-> 0, dup |-> 0]
  /\ lb = NoLb /\ val = NoVal /\ dr = NoDr
  /\ drv = Idle /\ cb = Idle /\ bt = Idle /\ tr = Idle /\ av = Idle /\ treap = Idle /\ splay = Idle

SigRunning == ~sig.killed /\ ~sig.race

\* static bool setup_done: new State (sem_init, the thread) and signal()
SigSetup(s) ==
  IF s.setup_done THEN s
  ELSE [s EXCEPT !.setup_done = TRUE,
                 !.tpc = IF s.sem_init_failed THEN "none" ELSE "wait",
                 !.installed = ~s.sem_init_failed]

\* OnSIGINT(body) up to the call of state->handlers.insert, which takes
\* no lock; keeps is what body returns when the thread calls it
SigOnSIGINT(keeps) ==
  /\ SigRunning /\ sig.pc = "idle" /\ sig.regs < MaxSigRegs
  /\ sig' = [SigSetup(sig) EXCEPT !.pc = "insert", !.regs = @ + 1,
                                  !.cur = [id |-> sig.regs + 1, fn |-> TRUE,
                                           keeps |-> keeps],
                                  !.race = sig.tpc = "iter"]
  /\ UNCHANGED <<avlVars, drv, cb, bt, tr, av, treap, splay>>

\* handlers.insert returns, and OnSIGINT returns the Cleanup
SigInsertEnd ==
  /\ SigRunning /\ sig.pc = "insert"
  /\ sig' = [sig EXCEPT !.handlers = Append(@, sig.cur),
                        !.cleanups = @ \cup {sig.cur.id},
                        !.pc = "idle", !.cur = 0]
  /\ UNCHANGED <<avlVars, drv, cb, bt, tr, av, treap, splay>>

\* ~Cleanup(): std::lock_guard l(state->handlers_lock)
SigCleanupLock(id) ==
  /\ SigRunning /\ sig.pc = "idle" /\ id \in sig.cleanups
  /\ sig.handlers_lock = "none"
  /\ sig' = [sig EXCEPT !.handlers_lock = "main", !.pc = "erase", !.cur = id,
                        !.cleanups = @ \ {id}]
  /\ UNCHANGED <<avlVars, drv, cb, bt, tr, av, treap, splay>>

\* the handlers without the one of the given id
SigErase(handlers, id) ==
  LET Other(h) == h.id # id
  IN SelectSeq(handlers, Other)

\* ~Cleanup(): state->handlers.erase(iter), and the lock_guard is left
SigCleanupErase ==
  /\ SigRunning /\ sig.pc = "erase"
  /\ sig' = [sig EXCEPT !.handlers = SigErase(@, sig.cur),
                        !.handlers_lock = "none", !.pc = "idle", !.cur = 0]
  /\ UNCHANGED <<avlVars, drv, cb, bt, tr, av, treap, splay>>

\* a SIGINT is delivered: the installed handler does sem_post; before
\* signal() was called, or when sem_init failed, the process is terminated
SigSigint ==
  /\ SigRunning /\ sig.sigs < MaxSigSignals
  /\ sig' = IF sig.installed
              THEN [sig EXCEPT !.sigs = @ + 1, !.sigint_sem = @ + 1]
              ELSE [sig EXCEPT !.sigs = @ + 1, !.killed = TRUE]
  /\ UNCHANGED <<avlVars, drv, cb, bt, tr, av, treap, splay>>

\* the thread: sem_wait returns
SigThreadWake ==
  /\ SigRunning /\ sig.tpc = "wait" /\ sig.sigint_sem > 0
  /\ sig' = [sig EXCEPT !.sigint_sem = @ - 1, !.tpc = "lock"]
  /\ UNCHANGED <<avlVars, drv, cb, bt, tr, av, treap, splay>>

\* the thread: std::lock_guard l(handlers_lock); the loop starts
SigThreadLock ==
  /\ SigRunning /\ sig.tpc = "lock" /\ sig.handlers_lock = "none"
  /\ sig' = [sig EXCEPT !.handlers_lock = "thread", !.tpc = "iter", !.i = 1,
                        !.at_least_once = FALSE,
                        !.race = sig.pc = "insert"]
  /\ UNCHANGED <<avlVars, drv, cb, bt, tr, av, treap, splay>>

\* the thread: one turn of the loop over the handlers
SigThreadCall ==
  /\ SigRunning /\ sig.tpc = "iter" /\ sig.i <= Len(sig.handlers)
  /\ sig' = IF ~sig.handlers[sig.i].fn THEN [sig EXCEPT !.i = @ + 1]
            ELSE [sig EXCEPT !.i = @ + 1, !.at_least_once = TRUE,
                             !.handlers[sig.i].fn = sig.handlers[sig.i].keeps]
  /\ UNCHANGED <<avlVars, drv, cb, bt, tr, av, treap, splay>>

\* the thread: the loop is over; with no handler called, SIG_DFL, raise
\* and abort; else the lock_guard is left and the thread waits again
SigThreadPassEnd ==
  /\ SigRunning /\ sig.tpc = "iter" /\ sig.i > Len(sig.handlers)
  /\ sig' = IF ~sig.at_least_once THEN [sig EXCEPT !.killed = TRUE]
            ELSE [sig EXCEPT !.handlers_lock = "none", !.tpc = "wait", !.i = 0]
  /\ UNCHANGED <<avlVars, drv, cb, bt, tr, av, treap, splay>>

NextSig ==
  \/ \E keeps \in BOOLEAN : SigOnSIGINT(keeps)
  \/ SigInsertEnd
  \/ \E id \in 1..MaxSigRegs : SigCleanupLock(id)
  \/ SigCleanupErase
  \/ SigSigint
  \/ SigThreadWake
  \/ SigThreadLock
  \/ SigThreadCall
  \/ SigThreadPassEnd

SpecSig == InitSig /\ [][NextSig]_vars

----------------------------------------------------------------------------
(* DoValidate and DecRef as functions of an arbitrary node graph *)

VKeys == {<<1>>, <<2>>}
VHeights == 1..3
VRefs == 0..1

RECURSIVE ArbTree(_, _)

\* every binary tree of exactly n nodes at the addresses base+1..base+n, with
\* arbitrary key, stored height and refcount in each node
ArbTree(n, base) ==
  IF n = 0 THEN {[nodes |-> EmptyFn, root |-> Null]}
  ELSE UNION {
         {[nodes |-> ((base + 1) :> [refcount |-> rc, height |-> h, left |-> L.root,
                                     right |-> R.root, value |-> k])
                     @@ L.nodes @@ R.nodes,
           root |-> base + 1] :
            L \in ArbTree(i, base + 1), R \in ArbTree(n - 1 - i, base + 1 + i),
            k \in VKeys, h \in VHeights, rc \in VRefs}
         : i \in 0..(n - 1)}

InitArb ==
  /\ \E n \in 0..MaxVNodes : \E g \in ArbTree(n, 0) :
       /\ mem = [EmptyMem EXCEPT !.nodes = g.nodes, !.next = n + 1]
       /\ root = [t \in Trees |-> IF t = 1 THEN g.root ELSE NoTree]
  /\ hist = [t \in Trees |-> <<>>]
  /\ nins = [ins |-> 0, dup |-> 0]
  /\ lb = NoLb
  /\ val = NoVal
  /\ dr = NoDr
  /\ drv = Idle /\ cb = Idle /\ bt = Idle /\ tr = Idle /\ av = Idle /\ treap = Idle /\ splay = Idle /\ sig = Idle

\* DoValidate applied to the graph
ArbValidate ==
  /\ val = NoVal /\ dr = NoDr
  /\ ValidateOp(1)

\* ~NodePtr() of a handle to node p of the graph
ArbDecRef(p) ==
  /\ val = NoVal /\ dr = NoDr
  /\ IsLive(mem, p)
  /\ mem' = DecRef(mem, p)
  /\ dr' = [p |-> p, before |-> mem.nodes[p].refcount,
            after |-> IF IsLive(mem', p) THEN mem'.nodes[p].refcount ELSE 0,
            freed |-> ~IsLive(mem', p), aborted |-> mem'.aborted]
  /\ UNCHANGED <<root, hist, nins, lb, val>>
  /\ UNCHANGED nonAvlVars

NextArb ==
  \/ ArbValidate
  \/ \E p \in 1..MaxVNodes : ArbDecRef(p)

SpecArb == InitArb /\ [][NextArb]_vars

----------------------------------------------------------------------------
(* What the claims speak about *)

RECURSIVE InOrder(_, _)

\* the keys of the tree below p, by in-order traversal
InOrder(m, p) ==
  IF p = Null \/ ~IsLive(m, p) THEN <<>>
  ELSE InOrder(m, m.nodes[p].left) \o <<m.nodes[p].value>> \o InOrder(m, m.nodes[p].right)

RECURSIVE Reach(_, _)

\* the nodes reachable from p, freed ones included
Reach(m, p) ==
  IF p = Null THEN {}
  ELSE IF ~IsLive(m, p) THEN {p}
  ELSE {p} \cup Reach(m, m.nodes[p].left) \cup Reach(m, m.nodes[p].right)

RECURSIVE ActualHeight(_, _)

\* the height of the tree below p, recomputed from its shape
ActualHeight(m, p) ==
  IF p = Null \/ ~IsLive(m, p) THEN 0
  ELSE Max(ActualHeight(m, m.nodes[p].left), ActualHeight(m, m.nodes[p].right)) + 1

StrictlyIncreasing(s) == \A i \in 1..(Len(s) - 1) : StrLess(s[i], s[i + 1])

Distinct(s) == \A i \in 1..Len(s) : \A j \in 1..Len(s) : i # j => s[i] # s[j]

KeySet(m, p) == Range(InOrder(m, p))

\* the AVLTree objects that exist
LiveTrees == {t \in Trees : root[t] # NoTree}

----------------------------------------------------------------------------
(* Claims *)

\* C1: whenever the keys inserted into a tree were pairwise distinct, in
\* whatever order, the in-order traversal after each completed Insert yields
\* the keys in strictly increasing lexicographic order.
C1_InOrderStrictlyIncreasing ==
  \A t \in LiveTrees :
    Distinct(hist[t]) => StrictlyIncreasing(InOrder(mem, root[t]))

\* six distinct keys inserted out of order, with at least two rebalancings
C1_Witness ==
  /\ root[1] > 0
  /\ Len(hist[1]) >= 6
  /\ Distinct(hist[1])
  /\ ~StrictlyIncreasing(hist[1])
  /\ mem.slow >= 2
  /\ Len(InOrder(mem, root[1])) = Len(hist[1])

\* C2: every node reachable from the root of a live version has subtrees
\* whose heights differ by at most 1.
C2_BalanceInvariant ==
  \A t \in LiveTrees : \A a \in Reach(mem, root[t]) :
    Abs(ActualHeight(mem, RawLeft(mem, a)) - ActualHeight(mem, RawRight(mem, a))) <= 1

\* two versions with different roots, after a rebalancing, one of them with
\* a node whose subtrees differ in height
C2_Witness ==
  /\ root[1] > 0 /\ root[2] > 0 /\ root[1] # root[2]
  /\ mem.slow >= 1
  /\ Len(hist[1]) >= 4
  /\ \E a \in Reach(mem, root[1]) :
       ActualHeight(mem, RawLeft(mem, a)) # ActualHeight(mem, RawRight(mem, a))

\* the answer of LowerBound(q) on root handle r: the node and the key read
\* through it
Answer(m, r, q) ==
  LET n == LowerBound(m, r, q)
  IN <<n, ValueOf(m, n)>>

\* C3: a step that leaves the root handle of a version alone (an Insert into
\* another version, a copy, a destruction) leaves every LowerBound answer of
\* that version exactly as it was.
C3_RetainedVersionAnswersUnchanged ==
  [][\A t \in Trees :
       (root[t] # NoTree /\ root'[t] = root[t]) =>
         \A q \in Queries :
           /\ LowerBound(mem', root[t], q) # UB
           /\ Answer(mem', root[t], q) = Answer(mem, root[t], q)]_vars

\* version 2 is the retained pre-insert tree of version 1, and the two
\* answer some query differently
C3_Witness ==
  /\ root[1] > 0 /\ root[2] > 0 /\ root[1] # root[2]
  /\ Len(hist[2]) >= 2 /\ Len(hist[1]) >= Len(hist[2]) + 2
  /\ SubSeq(hist[1], 1, Len(hist[2])) = hist[2]
  /\ \E q \in Queries : Answer(mem, root[1], q) # Answer(mem, root[2], q)

\* C4: an Insert of a key that is not stored yields a tree whose key set is
\* the key set before the Insert plus that key.
C4_InsertAddsExactlyTheKey ==
  [][\A t \in Trees : \A k \in Keys :
       (/\ root[t] # NoTree
        /\ hist'[t] = Append(hist[t], k)
        /\ k \notin KeySet(mem, root[t])) =>
         KeySet(mem', root'[t]) = KeySet(mem, root[t]) \cup {k}]_vars

\* all keys are stored after Inserts of distinct keys with two rebalancings
C4_Witness ==
  /\ root[1] > 0
  /\ Distinct(hist[1])
  /\ KeySet(mem, root[1]) = Keys
  /\ Range(hist[1]) = Keys
  /\ mem.slow >= 2

\* C5: LowerBound(q) returns a node holding the least stored key >= q, and
\* null when no stored key is >= q (so on the empty tree).
C5_LowerBoundIsLeastGeq ==
  lb.t # 0 =>
    LET ks == {k \in KeySet(mem, root[lb.t]) : StrGeq(k, lb.q)}
    IN /\ lb.r # UB
       /\ ks = {} => lb.r = Null
       /\ ks # {} => /\ lb.r # Null
                     /\ lb.key \in ks
                     /\ \A k \in ks : ~StrLess(k, lb.key)

\* the query is the greatest key of a tree of five or more keys and is
\* the answer
C5_Witness ==
  /\ lb.t = 1 /\ lb.r > 0
  /\ Len(hist[1]) >= 5
  /\ lb.key = lb.q
  /\ \A k \in KeySet(mem, root[1]) : ~StrGreater(k, lb.q)

\* the nodes deleted by the step
FreedByStep == (DOMAIN mem'.freedRc) \ (DOMAIN mem.freedRc)

\* C6: no step (a destruction of a version, the replacement of the root in
\* Insert) frees a node that a version living on after the step reaches.
C6_NoFreeOfReachableNode ==
  [][\A t \in Trees :
       /\ root'[t] # NoTree => Reach(mem', root'[t]) \cap FreedByStep = {}
       /\ (root[t] # NoTree /\ root'[t] = root[t]) =>
            Reach(mem, root[t]) \cap FreedByStep = {}]_vars

\* version 1 is destroyed and nodes allocated after the root of version 2
\* are freed, while version 2 still holds three nodes or more
C6_Witness ==
  /\ root[1] = NoTree /\ root[2] > 0
  /\ Cardinality(Reach(mem, root[2])) >= 3
  /\ Reach(mem, root[2]) \subseteq Live(mem)
  /\ \E a \in DOMAIN mem.freedRc : a > root[2]

\* C7: once every version is destroyed, no node is allocated any more, each
\* node ever allocated was deleted, and no deleted node was touched again.
C7_AllNodesFreedOnce ==
  (\A t \in Trees : root[t] = NoTree) =>
    /\ Live(mem) = {}
    /\ DOMAIN mem.freedRc = 1..(mem.next - 1)
    /\ ~mem.ub

\* everything is destroyed after Inserts that rebalanced
C7_Witness ==
  /\ \A t \in Trees : root[t] = NoTree
  /\ mem.slow >= 1
  /\ nins.ins >= 4
  /\ mem.next - 1 > nins.ins + 3

\* C8: every node reachable from a live root is allocated with refcount >= 1;
\* no allocated node is left at refcount 0 (none is freed too late) and every
\* deleted node was at refcount 0 when deleted (none is freed too early).
C8_RefcountInvariant ==
  /\ \A t \in LiveTrees : \A a \in Reach(mem, root[t]) :
       IsLive(mem, a) /\ mem.nodes[a].refcount >= 1
  /\ \A a \in Live(mem) : mem.nodes[a].refcount >= 1
  /\ \A a \in DOMAIN mem.freedRc : mem.freedRc[a] = 0

\* two versions share a node other than a root, and nodes were deleted
C8_Witness ==
  /\ root[1] > 0 /\ root[2] > 0 /\ root[1] # root[2]
  /\ \E a \in Reach(mem, root[1]) \cap Reach(mem, root[2]) :
       IsLive(mem, a) /\ mem.nodes[a].refcount >= 2
  /\ DOMAIN mem.freedRc # {}
  /\ mem.slow >= 1

ValNodes == Reach(mem, root[1])

\* some key of the in-order sequence is not greater than the one before it
OrderNotStrict(s) == \E i \in 1..(Len(s) - 1) : ~StrLess(s[i], s[i + 1])

\* some key of the in-order sequence is smaller than the one before it
OrderDecreases(s) == \E i \in 1..(Len(s) - 1) : StrLess(s[i + 1], s[i])

HeightBad == \E a \in ValNodes : mem.nodes[a].height # ActualHeight(mem, a)

BalanceBad ==
  \E a \in ValNodes :
    Abs(ActualHeight(mem, RawLeft(mem, a)) - ActualHeight(mem, RawRight(mem, a))) > 1

RefcountBad == \E a \in ValNodes : mem.nodes[a].refcount < 1

\* C10 as stated: Validate aborts on every tree whose in-order sequence is
\* not strictly increasing (equal neighbours included), or that has a node
\* with a wrong stored height, with subtrees differing in height by more
\* than 1, or with refcount < 1.
C10_ValidateAbortsOnEveryViolation ==
  (val.t # 0 /\ (\/ OrderNotStrict(InOrder(mem, root[1]))
                 \/ HeightBad \/ BalanceBad \/ RefcountBad)) => val.aborted

\* C10, amended: Validate aborts exactly on the trees whose in-order
\* sequence decreases somewhere, or that have a node with a wrong stored
\* height, with subtrees differing in height by more than 1, or with
\* refcount < 1; two equal neighbouring keys alone do not make it abort.
C10_ValidateAbortsOnDecrease ==
  val.t # 0 =>
    (val.aborted <=> (\/ OrderDecreases(InOrder(mem, root[1]))
                      \/ HeightBad \/ BalanceBad \/ RefcountBad))

\* Validate aborted on a tree whose only fault is its balance
C10_Witness ==
  /\ val.t # 0 /\ val.aborted
  /\ BalanceBad
  /\ ~HeightBad /\ ~RefcountBad
  /\ ~OrderDecreases(InOrder(mem, root[1]))

\* C11: a Validate call on a tree built only by Inserts of distinct keys does
\* not abort, reads no freed node, and leaves the heap (keys, shape, heights,
\* refcounts) and the root handle exactly as they were; so any number of
\* calls in a row behave like the first.
C11_ValidateIsReadOnly ==
  [][(val'.t # 0 /\ Distinct(hist[val'.t])) =>
       /\ ~val'.aborted
       /\ ~val'.ub
       /\ mem' = mem
       /\ root' = root]_vars

\* Validate has returned on a tree of six distinct keys built with
\* rebalancings
C11_Witness ==
  /\ val.t = 1 /\ ~val.aborted /\ ~val.ub
  /\ Len(hist[1]) >= 6 /\ Distinct(hist[1])
  /\ mem.slow >= 2
  /\ Cardinality(Reach(mem, root[1])) = 6

RECURSIVE LogFrac(_, _)

\* the number 1 in the fixed-point scale of the argument of LogFrac
LogScale == Pow2(12)
\* the number 1 in the fixed-point scale of the result of Log2Scaled
LogOne == Pow2(10)

\* log2(y / LogScale) * unit for LogScale <= y < 2 * LogScale, bit by bit by
\* repeated squaring; every truncation rounds down
LogFrac(y, unit) ==
  IF unit = 1 THEN 0
  ELSE LET sq == (y * y) \div LogScale
       IN IF sq >= 2 * LogScale
            THEN (unit \div 2) + LogFrac(sq \div 2, unit \div 2)
            ELSE LogFrac(sq, unit \div 2)

\* a lower estimate of log2(x) * LogOne, for x >= 1
Log2Scaled(x) ==
  LET e == FloorLog2(x)
  IN e * LogOne + LogFrac((x * LogScale) \div Pow2(e), LogOne)

\* h <= 1.44 * log2(n + 2)
WithinAVLBound(h, n) == h * 1000 * LogOne <= 1440 * Log2Scaled(n + 2)

StrictlyDecreasing(s) == \A i \in 1..(Len(s) - 1) : StrGreater(s[i], s[i + 1])

\* C12: after Inserts of n >= 1 distinct keys in any order the height of the
\* tree (stored in the root and recomputed from the shape) is at most
\* 1.44*log2(n+2); three keys inserted in decreasing order give height <= 2.
C12_HeightBound ==
  \A t \in LiveTrees :
    (Len(hist[t]) >= 1 /\ Distinct(hist[t])) =>
      /\ WithinAVLBound(ActualHeight(mem, root[t]), Len(hist[t]))
      /\ WithinAVLBound(HeightOf(mem, root[t]), Len(hist[t]))
      /\ (Len(hist[t]) = 3 /\ StrictlyDecreasing(hist[t])) =>
           ActualHeight(mem, root[t]) <= 2

\* three keys were inserted in decreasing order, a rotation ran and the tree
\* has height 2
C12_Witness ==
  /\ root[1] > 0
  /\ Len(hist[1]) = 3 /\ StrictlyDecreasing(hist[1])
  /\ mem.slow = 1
  /\ ActualHeight(mem, root[1]) = 2

RECURSIVE SearchPath(_, _, _)

\* the nodes Rec visits on its way down from node: the insertion path
SearchPath(m, node, value) ==
  IF node = Null \/ ~IsLive(m, node) THEN <<>>
  ELSE <<node>> \o SearchPath(m, IF GreaterThan(ValueOf(m, node), value)
                                    THEN RawLeft(m, node) ELSE RawRight(m, node), value)

\* the roots of the subtrees hanging off the insertion path
OffPath(m, node, value) ==
  {c \in {IF GreaterThan(ValueOf(m, p), value) THEN RawRight(m, p) ELSE RawLeft(m, p) :
           p \in Range(SearchPath(m, node, value))} : c # Null}

\* C20: an Insert into a non-empty tree allocates one node per node of the
\* insertion path plus the leaf, plus 1 or 2 more when it rotates; the new
\* version consists of path length + 1 fresh nodes and of the subtrees that
\* hung off the path, each present as the same node with unchanged content,
\* its refcount one higher when the old version is still held.
C20_InsertSharesOffPathSubtrees ==
  [][\A t \in Trees : \A k \in Keys :
       (root[t] > 0 /\ hist'[t] = Append(hist[t], k)) =>
         LET path   == SearchPath(mem, root[t], k)
             fresh  == mem.next..(mem'.next - 1)
             old    == Reach(mem, root[t])
             new    == Reach(mem', root'[t])
             rots   == mem'.slow - mem.slow
             allocs == Cardinality(fresh)
         IN /\ rots \in {0, 1}
            /\ rots = 0 => allocs = Len(path) + 1
            /\ rots = 1 => allocs \in {Len(path) + 2, Len(path) + 3}
            /\ Cardinality(new \cap fresh) = Len(path) + 1
            /\ new \ fresh = old \ Range(path)
            /\ \A c \in OffPath(mem, root[t], k) :
                 /\ c \in new /\ IsLive(mem', c)
                 /\ [mem'.nodes[c] EXCEPT !.refcount = 0]
                      = [mem.nodes[c] EXCEPT !.refcount = 0]
                 /\ (\E u \in Trees : u # t /\ root'[u] = root[t]) =>
                      mem'.nodes[c].refcount = mem.nodes[c].refcount + 1]_vars

\* version 1 was made by one more Insert from retained version 2, which was
\* built with a rotation; the two share a subtree root that two parents hold
C20_Witness ==
  /\ root[1] > 0 /\ root[2] > 0 /\ root[1] # root[2]
  /\ Len(hist[2]) >= 3 /\ hist[1] = Append(hist[2], hist[1][Len(hist[1])])
  /\ mem.slow >= 1
  /\ \E c \in OffPath(mem, root[2], hist[1][Len(hist[1])]) :
       /\ c \in Reach(mem, root[1]) /\ IsLive(mem, c)
       /\ mem.nodes[c].refcount = 2

\* C13: when the loop has stopped on SIGINT, no Insert is in progress: every
\* key handed to Insert is in the tree (one more per loop round), no
\* half-built node is left, the order, balance, height and refcount
\* invariants hold, Validate passes, and a LowerBound then asked is right.
C13_InterruptBetweenInserts ==
  (drv # Idle /\ drv.pc = "interrupted") =>
    /\ drv.stop_req
    /\ drv.pend = Null
    /\ Len(hist[1]) = Len(drv.s) - drv.pos
    /\ Len(hist[1]) >= 1
    /\ Len(InOrder(mem, root[1])) = Len(hist[1])
    /\ KeySet(mem, root[1]) = Range(hist[1])
    /\ StrictlyIncreasing(InOrder(mem, root[1]))
    /\ Live(mem) = Reach(mem, root[1])
    /\ \A a \in Reach(mem, root[1]) :
         /\ mem.nodes[a].refcount >= 1
         /\ mem.nodes[a].height = ActualHeight(mem, a)
         /\ Abs(ActualHeight(mem, RawLeft(mem, a)) - ActualHeight(mem, RawRight(mem, a))) <= 1
    /\ ~Validate(mem, root[1]).aborted
    /\ ~mem.ub
    /\ C5_LowerBoundIsLeastGeq

\* the loop was cut short by the flag after three Inserts or more, one of
\* which rotated, and the tree was queried
C13_Witness ==
  /\ drv # Idle /\ drv.pc = "interrupted"
  /\ drv.pos > 0
  /\ Len(hist[1]) >= 3
  /\ mem.slow >= 1
  /\ lb.t = 1 /\ lb.r > 0

RECURSIVE CbLeafSeq(_), CbSubtrees(_)

\* the keys of the leaves below a link, from left to right
CbLeafSeq(node) ==
  IF node.kind = "int" THEN CbLeafSeq(node.child[1]) \o CbLeafSeq(node.child[2])
  ELSE IF node.kind = "ext" THEN <<node.key>>
  ELSE <<>>

CbKeysOf(node) == Range(CbLeafSeq(node))

\* the internal nodes at and below a link
CbSubtrees(node) ==
  IF node.kind = "int"
    THEN {node} \cup CbSubtrees(node.child[1]) \cup CbSubtrees(node.child[2])
    ELSE {}

\* the step is an Insert call that is not a stutter
CbIsInsertStep == cb' # cb /\ ~cb'.lb.asked /\ cb'.val = CbNoVal

FirstDiffBit(a, b, n) ==
  LET diff == {i \in 0..(n - 1) : GetBit(a, i) # GetBit(b, i)}
  IN IF diff = {} THEN NoCrit ELSE CHOOSE i \in diff : \A j \in diff : i <= j

\* C16: after every Insert (and so until the next one) every internal node
\* has two non-null children, and its crit-bit index is the first bit at
\* which any key of its left subtree differs from any key of its right
\* subtree, the left key having 0 and the right key 1 there; the leaves are
\* the keys inserted, each once, and ValidateInvariants passes.
C16_CritBitInvariant ==
  (cb # Idle /\ ~cb.lb.asked) =>
    /\ \A n \in CbSubtrees(cb.root) :
         /\ n.child[1].kind \in {"ext", "int"}
         /\ n.child[2].kind \in {"ext", "int"}
         /\ \A l \in CbKeysOf(n.child[1]) : \A r \in CbKeysOf(n.child[2]) :
              /\ FirstDiffBit(l, r, 8 * Max(Len(l), Len(r))) = n.crit
              /\ GetBit(l, n.crit) = 0
              /\ GetBit(r, n.crit) = 1
    /\ CbKeysOf(cb.root) = cb.keys
    /\ Len(CbLeafSeq(cb.root)) = Cardinality(cb.keys)
    /\ cb.val.ran => ~cb.val.aborted

\* a tree of four keys with an internal node below an internal node whose
\* crit-bit index is in the second byte, validated
C16_Witness ==
  /\ cb # Idle /\ cb.val.ran /\ ~cb.val.aborted
  /\ Cardinality(cb.keys) = 4
  /\ \E n \in CbSubtrees(cb.root) :
       /\ n.crit >= 8
       /\ n.child[1].kind = "int" \/ n.child[2].kind = "int"

----------------------------------------------------------------------------
(* The persistent B-tree: versions and node widths *)

RECURSIVE BtReach(_, _), BtView(_, _)

\* the nodes a root handle reaches
BtReach(h, p) ==
  IF p = NullOpt THEN {}
  ELSE IF ~BtIsLive(h, p) THEN {p}
  ELSE {p} \cup UNION {BtReach(h, h.nodes[p].kids[i]) : i \in DOMAIN h.nodes[p].kids}

\* the tree a root handle denotes: keys and subtrees, without addresses
\* and refcounts
BtView(h, p) ==
  IF p = NullOpt THEN <<"empty">>
  ELSE IF ~BtIsLive(h, p) THEN <<"dangling">>
  ELSE <<h.nodes[p].is_leaf, h.nodes[p].keys,
         [i \in DOMAIN h.nodes[p].kids |-> BtView(h, h.nodes[p].kids[i])]>>

\* the nodes alive before and after a step whose keys, child pointers or
\* kind differ
BtChangedInPlace(h1, h2) ==
  {p \in DOMAIN h1.nodes \cap DOMAIN h2.nodes :
     \/ h1.nodes[p].keys # h2.nodes[p].keys
     \/ h1.nodes[p].kids # h2.nodes[p].kids
     \/ h1.nodes[p].is_leaf # h2.nodes[p].is_leaf}

\* C17: an Insert into one tree leaves every other live tree (a retained
\* copy of an earlier root handle) as it was: the same root handle, every
\* node it reaches alive, the same keys in the same shape.  A node is
\* changed after its construction only by the fast path, and a node the
\* fast path changes is reached by no other tree.
C17_RetainedVersionUnchanged ==
  [][bt'.last.op = "insert" =>
       /\ ~bt'.h.ub
       /\ \A t \in bt.live \ {bt'.last.t} :
            /\ t \in bt'.live
            /\ bt'.root[t] = bt.root[t]
            /\ BtView(bt'.h, bt'.root[t]) = BtView(bt.h, bt.root[t])
            /\ BtReach(bt'.h, bt'.root[t]) \subseteq DOMAIN bt'.h.nodes
       /\ \A p \in BtChangedInPlace(bt.h, bt'.h) :
            /\ bt'.last.fast
            /\ \A t \in bt.live \ {bt'.last.t} : p \notin BtReach(bt.h, bt.root[t])]_vars

\* an Insert was done by the fast path on a tree that shares nodes with
\* another live tree
C17_Witness ==
  /\ bt.last.op = "insert"
  /\ bt.last.fast
  /\ \E t \in bt.live \ {bt.last.t} :
       BtReach(bt.h, bt.root[t]) \cap BtReach(bt.h, bt.root[bt.last.t]) # {}

\* maximum number of keys of a node
BtMaxWidth(n) == IF n.is_leaf THEN kLeafWidth ELSE kWidth

\* C18: in every live tree every node holds at least one key and at most
\* its maximum width (kWidth keys in an internal node, kLeafWidth in a
\* leaf), and every node other than the root holds at least half of its
\* maximum width, the integer half kWidth / 2 and kLeafWidth / 2 at which
\* the splits cut.
C18_NodeWidths ==
  \A t \in bt.live :
    \A p \in BtReach(bt.h, bt.root[t]) :
      /\ BtIsLive(bt.h, p)
      /\ Len(bt.h.nodes[p].keys) <= BtMaxWidth(bt.h.nodes[p])
      /\ Len(bt.h.nodes[p].keys) >= 1
      /\ p # bt.root[t] => Len(bt.h.nodes[p].keys) >= BtMaxWidth(bt.h.nodes[p]) \div 2

\* a tree of three levels after the split of a full root: an internal node
\* other than the root at its minimum and a leaf at its minimum
C18_Witness ==
  \E t \in bt.live :
    /\ bt.h.splits > 0
    /\ \E p \in BtReach(bt.h, bt.root[t]) \ {bt.root[t]} :
         ~bt.h.nodes[p].is_leaf /\ Len(bt.h.nodes[p].keys) = kWidth \div 2
    /\ \E p \in BtReach(bt.h, bt.root[t]) :
         bt.h.nodes[p].is_leaf /\ Len(bt.h.nodes[p].keys) = kLeafWidth \div 2

\* no Insert, copy or destruction trips an assert or touches a freed node
BtNoFailure == ~bt.h.ub /\ ~bt.h.assertFail

----------------------------------------------------------------------------
(* The trie: LowerBound *)

\* the smallest key of a set of keys that is not empty
TrLeast(S) == CHOOSE k \in S : \A o \in S : ~StrLess(o, k)

\* C19: on a trie that is not empty, built by Inserts of keys none of
\* which is a prefix of another, LowerBound(q) returns the leaf of the
\* smallest stored key greater than or equal to q (the stored key equal to
\* q when there is one), or null if every stored key is smaller.
C19_TrieLowerBoundIsLeastGeq ==
  tr.lb.asked =>
    LET geq == {k \in tr.keys : StrGeq(k, tr.lb.q)}
    IN IF geq = {} THEN ~tr.lb.r.found
       ELSE tr.lb.r.found /\ tr.lb.r.data = TrLeast(geq)

\* what LowerBound returns: the leaf of the smallest stored key strictly
\* greater than q, or null if there is none
TrLowerBoundIsLeastGreater ==
  tr.lb.asked =>
    LET gt == {k \in tr.keys : StrGreater(k, tr.lb.q)}
    IN IF gt = {} THEN ~tr.lb.r.found
       ELSE tr.lb.r.found /\ tr.lb.r.data = TrLeast(gt)

\* no Insert of the run tripped an assert or followed a null place
TrNoFailure == ~tr.bad

----------------------------------------------------------------------------
(* The persistent AVL tree: lifetimes inside Insert, rotations, equal keys *)

\* C21: an Insert reads no freed node.  Of the nodes it constructs, those
\* of the new version are alive and held by a handle (refcount >= 1) when
\* it returns, and the others, taken apart by a rebalancing, were deleted
\* at refcount 0; no node is left alive at refcount 0.  The subtrees that
\* hung off the insertion path, among them the children of the nodes taken
\* apart, are alive in the new version.
C21_NoUseAfterFreeInInsert ==
  [][\A t \in Trees : \A k \in Keys :
       (root[t] # NoTree /\ hist'[t] = Append(hist[t], k)) =>
         LET fresh   == mem.next..(mem'.next - 1)
             new     == Reach(mem', root'[t])
             dropped == fresh \ new
             kept    == IF root[t] = NullOpt THEN {}
                        ELSE Reach(mem, root[t]) \ Range(SearchPath(mem, root[t], k))
         IN /\ ~mem'.ub
            /\ \A a \in new : IsLive(mem', a) /\ mem'.nodes[a].refcount >= 1
            /\ \A a \in dropped : a \in DOMAIN mem'.freedRc /\ mem'.freedRc[a] = 0
            /\ \A a \in Live(mem') : mem'.nodes[a].refcount >= 1
            /\ kept \subseteq new]_vars

\* version 1 was made from the held version 2 by one Insert, which
\* rebalanced with a double rotation: two nodes it had built were taken
\* apart and deleted
C21_Witness ==
  /\ root[1] > 0 /\ root[2] > 0 /\ root[1] # root[2]
  /\ Len(hist[1]) = Len(hist[2]) + 1
  /\ hist[2] = SubSeq(hist[1], 1, Len(hist[2]))
  /\ mem.slow >= 1
  /\ \E a \in DOMAIN mem.freedRc :
       a > root[2] /\ a + 1 \in DOMAIN mem.freedRc /\ a + 1 < root[1]

\* s with k put in at its place in the order
InsertSorted(s, k) ==
  LET Below(x) == StrLess(x, k)
      Above(x) == ~StrLess(x, k)
  IN SelectSeq(s, Below) \o <<k>> \o SelectSeq(s, Above)

\* C22: an Insert of a key not stored, into a tree of distinct keys on
\* which no assert has failed, fails no assert: not the balance assert of
\* the constructor (which any height difference outside [-2, 2] handed to
\* MakeAndRebalance would trip, as would a rotation that builds a node
\* whose children differ by 2), not assert(balance == 2), not the order
\* asserts of mk2 and mk3.  The keys stay in their order, the new key at
\* its place, and every node built has children whose recomputed heights
\* differ by at most 1 and stores its recomputed height.
C22_RotationsKeepOrderAndBalance ==
  [][\A k \in Keys :
       (root[1] # NoTree /\ hist'[1] = Append(hist[1], k)
          /\ Distinct(hist'[1]) /\ ~mem.assertFail) =>
         /\ ~mem'.assertFail
         /\ InOrder(mem', root'[1]) = InsertSorted(InOrder(mem, root[1]), k)
         /\ \A a \in (mem.next..(mem'.next - 1)) \cap Live(mem') :
              /\ Abs(ActualHeight(mem', mem'.nodes[a].right)
                       - ActualHeight(mem', mem'.nodes[a].left)) <= 1
              /\ mem'.nodes[a].height = ActualHeight(mem', a)]_vars

\* six distinct keys are in the tree after three rebalancings or more
C22_Witness ==
  /\ root[1] > 0
  /\ Len(hist[1]) = 6 /\ Distinct(hist[1])
  /\ mem.slow >= 3
  /\ ~mem.assertFail
  /\ ActualHeight(mem, root[1]) = 3

\* C23 as stated: an Insert of a key equal to a stored one goes right at
\* the equal node and fails nothing; the tree then has one node more, holds
\* the key twice with the other keys in order, and is balanced.
C23_EqualKeyInsertedSilently ==
  [][\A k \in Keys :
       (root[1] > 0 /\ hist'[1] = Append(hist[1], k) /\ k \in Range(hist[1])
          /\ Distinct(hist[1]) /\ ~mem.assertFail) =>
         LET path == SearchPath(mem, root[1], k)
         IN /\ \A i \in 1..Len(path) :
                 ValueOf(mem, path[i]) = k =>
                   IF i < Len(path) THEN path[i + 1] = RawRight(mem, path[i])
                   ELSE RawRight(mem, path[i]) = Null
            /\ ~mem'.assertFail /\ ~mem'.ub /\ ~mem'.aborted
            /\ Cardinality(Reach(mem', root'[1])) = Cardinality(Reach(mem, root[1])) + 1
            /\ InOrder(mem', root'[1]) = InsertSorted(InOrder(mem, root[1]), k)
            /\ \A a \in Reach(mem', root'[1]) :
                 Abs(ActualHeight(mem', RawRight(mem', a))
                       - ActualHeight(mem', RawLeft(mem', a))) <= 1]_vars

\* C23, amended: an Insert of a key equal to a stored one goes right at the
\* equal node; an assert fails in it only if it rebalances (assert(k1 < k2)
\* or assert(!c || c->value > k2) of mk2 and mk3, on the two equal keys),
\* and where the asserts are compiled out, or none fails, it completes:
\* the tree then has one node more, holds the key twice with the other
\* keys in order, and is balanced.
C23_EqualKeyGoesRightAssertsApart ==
  [][\A k \in Keys :
       (root[1] > 0 /\ hist'[1] = Append(hist[1], k) /\ k \in Range(hist[1])
          /\ Distinct(hist[1]) /\ ~mem.assertFail) =>
         LET path == SearchPath(mem, root[1], k)
         IN /\ \A i \in 1..Len(path) :
                 ValueOf(mem, path[i]) = k =>
                   IF i < Len(path) THEN path[i + 1] = RawRight(mem, path[i])
                   ELSE RawRight(mem, path[i]) = Null
            /\ mem'.assertFail => mem'.slow > mem.slow
            /\ ~mem'.ub /\ ~mem'.aborted
            /\ Cardinality(Reach(mem', root'[1])) = Cardinality(Reach(mem, root[1])) + 1
            /\ InOrder(mem', root'[1]) = InsertSorted(InOrder(mem, root[1]), k)
            /\ \A a \in Reach(mem', root'[1]) :
                 Abs(ActualHeight(mem', RawRight(mem', a))
                       - ActualHeight(mem', RawLeft(mem', a))) <= 1]_vars

\* a stored key was inserted again and the rebalancing tripped an assert;
\* past it, the tree holds every inserted key
C23_Witness ==
  /\ root[1] > 0
  /\ ~Distinct(hist[1])
  /\ mem.assertFail
  /\ Cardinality(Reach(mem, root[1])) = Len(hist[1])

----------------------------------------------------------------------------
(* The persistent B-tree: the order of the keys and the depth of the leaves *)

\* Validate, Checker::Rec: the keys in the order VisitKey meets them
RECURSIVE BtInOrder(_, _)
BtInOrder(h, p) ==
  LET n == h.nodes[p]
      RECURSIVE Walk(_)
      Walk(i) == IF i > Len(n.keys) THEN <<>>
                 ELSE <<n.keys[i]>> \o BtInOrder(h, n.kids[i + 1]) \o Walk(i + 1)
  IN IF n.is_leaf THEN n.keys
     ELSE BtInOrder(h, n.kids[1]) \o Walk(1)

\* the depths at which the leaves below p lie, p being at depth d
RECURSIVE BtLeafDepths(_, _, _)
BtLeafDepths(h, p, d) ==
  IF h.nodes[p].is_leaf THEN {d}
  ELSE UNION {BtLeafDepths(h, h.nodes[p].kids[i], d + 1) : i \in DOMAIN h.nodes[p].kids}

\* C24: after any sequence of Inserts of distinct keys, in every live tree
\* the in-order walk meets the keys in strictly increasing order, it meets
\* exactly the keys inserted, and all leaves are at the same depth.
C24_BTreeOrderedAndLeavesLevel ==
  \A t \in bt.live :
    bt.root[t] # NullOpt =>
      /\ BtReach(bt.h, bt.root[t]) \subseteq DOMAIN bt.h.nodes
      /\ StrictlyIncreasing(BtInOrder(bt.h, bt.root[t]))
      /\ Range(BtInOrder(bt.h, bt.root[t])) = bt.keys[t]
      /\ Cardinality(BtLeafDepths(bt.h, bt.root[t], 0)) = 1

\* a tree of three levels, grown by splits of leaves and of an internal root
C24_Witness ==
  \E t \in bt.live :
    /\ bt.root[t] # NullOpt
    /\ BtLeafDepths(bt.h, bt.root[t], 0) = {2}
    /\ Len(BtInOrder(bt.h, bt.root[t])) >= 2 * kLeafWidth

----------------------------------------------------------------------------
(* The AVL tree of suffix-avl.cc: stored balances and order *)

\* Validate, Checker::Rec: the height it returns for the subtree of p
RECURSIVE AvHeight(_, _)
AvHeight(s, p) ==
  IF p = Null THEN 0
  ELSE Max(AvHeight(s, s.nodes[p].childs[1]), AvHeight(s, s.nodes[p].childs[2])) + 1

\* Validate, Checker::Rec: the keys in the order prev_seen takes them
RECURSIVE AvInOrder(_, _)
AvInOrder(s, p) ==
  IF p = Null THEN <<>>
  ELSE AvInOrder(s, s.nodes[p].childs[1]) \o <<s.nodes[p].data>>
         \o AvInOrder(s, s.nodes[p].childs[2])

\* the nodes of the subtree of p
RECURSIVE AvReach(_, _)
AvReach(s, p) ==
  IF p = Null THEN {}
  ELSE {p} \cup AvReach(s, s.nodes[p].childs[1]) \cup AvReach(s, s.nodes[p].childs[2])

\* C25: after any sequence of Inserts of distinct keys into the AVL tree of
\* suffix-avl.cc, the balance stored in every node is the height of its
\* right subtree minus the height of its left subtree and is -1, 0 or 1,
\* and the in-order walk meets the keys inserted in strictly increasing
\* order; no assert of insert_leaf, swap_child or swap_grand_child fails.
C25_StoredBalanceIsHeightDifference ==
  /\ ~av.t.assertFail /\ ~av.t.ub
  /\ \A p \in AvReach(av.t, av.t.root) :
       /\ av.t.nodes[p].balance =
            AvHeight(av.t, av.t.nodes[p].childs[2]) - AvHeight(av.t, av.t.nodes[p].childs[1])
       /\ av.t.nodes[p].balance \in {-1, 0, 1}
  /\ AvReach(av.t, av.t.root) = DOMAIN av.t.nodes
  /\ StrictlyIncreasing(AvInOrder(av.t, av.t.root))
  /\ Range(AvInOrder(av.t, av.t.root)) = av.keys

\* a tree of six keys or more built with a swap_child and with a
\* swap_grand_child, in which a node leans to one side
C25_Witness ==
  /\ av.t.single > 0 /\ av.t.double > 0
  /\ Cardinality(av.keys) >= 6
  /\ \E p \in AvReach(av.t, av.t.root) : av.t.nodes[p].balance # 0

----------------------------------------------------------------------------
(* The treap: order of the keys and order of the priorities *)

\* Validate, Checker::Rec: the keys in the order prev_seen takes them
RECURSIVE TreapInOrder(_, _)
TreapInOrder(s, p) ==
  IF p = Null THEN <<>>
  ELSE TreapInOrder(s, s.nodes[p].left) \o <<s.nodes[p].value>>
         \o TreapInOrder(s, s.nodes[p].right)

\* the nodes of the subtree of p
RECURSIVE TreapReach(_, _)
TreapReach(s, p) ==
  IF p = Null THEN {}
  ELSE {p} \cup TreapReach(s, s.nodes[p].left) \cup TreapReach(s, s.nodes[p].right)

\* C26: after any sequence of Inserts of distinct keys into the treap, the
\* in-order walk meets the keys inserted in strictly increasing order, and
\* the priority of every child is strictly greater than the priority of
\* its parent.
C26_TreapOrderAndHeap ==
  /\ TreapReach(treap.t, treap.t.root) = DOMAIN treap.t.nodes
  /\ StrictlyIncreasing(TreapInOrder(treap.t, treap.t.root))
  /\ Range(TreapInOrder(treap.t, treap.t.root)) = treap.keys
  /\ \A p \in DOMAIN treap.t.nodes :
       /\ treap.t.nodes[p].left # Null =>
            treap.t.nodes[treap.t.nodes[p].left].priority > treap.t.nodes[p].priority
       /\ treap.t.nodes[p].right # Null =>
            treap.t.nodes[treap.t.nodes[p].right].priority > treap.t.nodes[p].priority

\* a treap in which an Insert split a subtree whose keys lie on both sides
\* of the new key: a node placed by a split has both children, and the
\* root is not the first node made
C26_Witness ==
  /\ treap.t.splits > 0
  /\ Cardinality(treap.keys) >= 5
  /\ treap.t.root # 1
  /\ \E p \in DOMAIN treap.t.nodes :
       /\ p # 1 /\ treap.t.nodes[p].left # Null /\ treap.t.nodes[p].right # Null
       /\ treap.t.nodes[p].left < p /\ treap.t.nodes[p].right < p

----------------------------------------------------------------------------
(* The splay tree: the three insert operations and LowerBound *)

\* Validate, Checker::Rec: the keys in the order prev_seen takes them
RECURSIVE SplayInOrder(_, _)
SplayInOrder(s, p) ==
  IF p = Null THEN <<>>
  ELSE SplayInOrder(s, s.nodes[p].left) \o <<s.nodes[p].value>>
         \o SplayInOrder(s, s.nodes[p].right)

\* C27: an insert operation of the splay tree (Insert, InsertMoveToTop or
\* NonSplayUnbalancedInsert) called with a key not yet stored leaves an
\* in-order walk that is strictly increasing and is the walk before the
\* call with the key added; after Insert and after InsertMoveToTop the
\* new node is the root, the keys before the call that are smaller are
\* in its left subtree and those that are larger in its right subtree.
C27_SplayInsertsKeepOrder ==
  [][splay'.last.op = "insert" /\ Len(splay'.t.nodes) = Len(splay.t.nodes) + 1 =>
       LET k == splay'.last.arg
           new == splay'.last.r
           before == SplayInOrder(splay.t, splay.t.root)
           after == SplayInOrder(splay'.t, splay'.t.root)
       IN /\ k \notin Range(before)
          /\ StrictlyIncreasing(after)
          /\ after = InsertSorted(before, k)
          /\ Range(after) = Range(before) \cup {k}
          /\ splay.insert_op \in {"splay", "move-to-top"} =>
               /\ splay'.t.root = new
               /\ splay'.t.nodes[new].value = k
               /\ Range(SplayInOrder(splay'.t, splay'.t.nodes[new].left))
                    = {o \in Range(before) : StrLess(o, k)}
               /\ Range(SplayInOrder(splay'.t, splay'.t.nodes[new].right))
                    = {o \in Range(before) : StrGreater(o, k)}]_vars

\* the fourth key was put in by Insert, zig-zig steps were made on the
\* way, and it has keys on both sides
C27_Witness ==
  /\ splay.insert_op = "splay" /\ splay.last.op = "insert"
  /\ Cardinality(splay.keys) >= 4
  /\ splay.t.zigs >= 2
  /\ splay.t.nodes[splay.t.root].left # Null
  /\ splay.t.nodes[splay.t.root].right # Null

\* C28: LowerBound(str) of the splay tree returns the node of the smallest
\* stored key >= str, or nullptr if every stored key is smaller; a node it
\* returns is the root after the call; the in-order walk, and so the set
\* of keys, is the same after the call as before.
C28_SplayLowerBoundMovesToRoot ==
  [][splay'.last.op = "lower_bound" /\ splay'.nq = splay.nq + 1 =>
       LET q == splay'.last.arg
           r == splay'.last.r
           before == SplayInOrder(splay.t, splay.t.root)
           geq == {o \in Range(before) : StrGeq(o, q)}
       IN /\ ~splay'.t.assertFail
          /\ IF geq = {} THEN r = Null
             ELSE /\ r # Null
                  /\ splay'.t.nodes[r].value = TrLeast(geq)
                  /\ splay'.t.root = r
          /\ SplayInOrder(splay'.t, splay'.t.root) = before
          /\ Range(before) = splay.keys]_vars

\* the first LowerBound of a run of Inserts returned a node that was not
\* the root (the node made last) and that has keys on both sides
C28_Witness ==
  /\ splay.insert_op = "splay" /\ splay.nrm = 0 /\ splay.nq = 1
  /\ splay.last.op = "lower_bound"
  /\ splay.last.r # Null /\ splay.last.r # Len(splay.t.nodes)
  /\ splay.t.root = splay.last.r
  /\ splay.t.nodes[splay.t.root].left # Null
  /\ splay.t.nodes[splay.t.root].right # Null

----------------------------------------------------------------------------
(* The trie: what DoValidate asserts of every node *)

\* the keys of the leaves below t
RECURSIVE TrKeysBelow(_)
TrKeysBelow(t) ==
  IF t.kind = "empty" THEN {}
  ELSE IF t.kind = "leaf" THEN {t.data}
  ELSE UNION {TrKeysBelow(t.children[i]) : i \in DOMAIN t.children}

\* the nodes (not the leaves) below t, t included
RECURSIVE TrNodesBelow(_)
TrNodesBelow(t) ==
  IF t.kind # "node" THEN {}
  ELSE {t} \cup UNION {TrNodesBelow(t.children[i]) : i \in DOMAIN t.children}

\* EnumChildren: the byte of the i-th child
TrByteOfChild(n, i) == CHOOSE c \in n.chars : NumElementsBefore(n.chars, c) = i - 1

\* DoValidate at node n, its size apart: the bytes of the children
\* increase, every key below a child carries the byte of the child at the
\* depth of n, and the keys below n agree on exactly their first n.depth
\* bytes
TrNodeShape(n) ==
  /\ Len(n.children) = Cardinality(n.chars)
  /\ \A i \in DOMAIN n.children :
       /\ n.children[i].kind # "empty"
       /\ \A k \in TrKeysBelow(n.children[i]) :
            Len(k) > n.depth /\ k[n.depth + 1] = TrByteOfChild(n, i)
       /\ n.children[i].kind = "node" => n.children[i].depth >= n.depth + 1
  /\ \A i, j \in DOMAIN n.children :
       i < j => TrByteOfChild(n, i) < TrByteOfChild(n, j)
  /\ \A a, b \in TrKeysBelow(n) : Mismatch(a, b) >= n.depth
  /\ \E a, b \in TrKeysBelow(n) : Mismatch(a, b) = n.depth

\* C29: after any sequence of Inserts of keys none of which is a prefix of
\* another, every node of the trie has at least one child and at most as
\* many as there are byte values (256; TrMaxByte + 1 here), in strictly
\* increasing order of their bytes; the keys below a child carry the byte
\* of the child at the depth of the node; the longest common prefix of the
\* keys below the node has exactly the length of the node's depth; and
\* the size the node records is the number of its children.
C29_TrieNodeInvariants ==
  /\ ~tr.bad
  /\ TrKeysBelow(tr.root) = tr.keys
  /\ \A n \in TrNodesBelow(tr.root) :
       /\ Len(n.children) >= 1 /\ Len(n.children) <= TrMaxByte + 1
       /\ TrNodeShape(n)
       /\ n.size = Len(n.children)

\* what holds of every node: all of the above, but the size recorded is
\* the number of children only as a uint8_t holds it, 0 for a node with
\* one child for each byte value
TrNodeInvariantsSizeModulo ==
  /\ ~tr.bad
  /\ TrKeysBelow(tr.root) = tr.keys
  /\ \A n \in TrNodesBelow(tr.root) :
       /\ Len(n.children) >= 2 /\ Len(n.children) <= TrMaxByte + 1
       /\ TrNodeShape(n)
       /\ n.size = Len(n.children) % (TrMaxByte + 1)
       /\ n.size = Len(n.children) <=> Len(n.children) <= TrMaxByte

----------------------------------------------------------------------------
(* The crit-bit tree: the successor of a stored key, as main() tests it *)

\* C30: for a stored key k that has a successor n = LowerBound(k, true),
\* n is a stored key other than k, and n is LowerBound(t) for the string
\* t that main() builds: the bytes of k up to and including the first
\* one at which k and n differ, that byte incremented by one.  main()
\* calls abort() otherwise.
C30_SuccessorIsLowerBoundOfIncrementedPrefix ==
  (cb # Idle /\ cb.succ.ran) =>
    /\ cb.succ.nextit \in cb.keys
    /\ cb.succ.nextit # cb.succ.it
    /\ cb.succ.testit.found
    /\ cb.succ.testit.key = cb.succ.nextit
    /\ ~cb.succ.aborted

\* what holds: the successor is the stored key next above k, and the test
\* of main() passes whenever k is not a prefix of its successor, the
\* case in which test_s is well defined
CbSuccessorRelationUnlessPrefix ==
  (cb # Idle /\ cb.succ.ran) =>
    /\ cb.succ.nextit \in cb.keys
    /\ StrGreater(cb.succ.nextit, cb.succ.it)
    /\ \A o \in cb.keys : StrGreater(o, cb.succ.it) => ~StrLess(o, cb.succ.nextit)
    /\ ~cb.succ.ub =>
         /\ cb.succ.testit.found
         /\ cb.succ.testit.key = cb.succ.nextit
         /\ ~cb.succ.aborted
    /\ (cb.succ.ub /\ cb.succ.test_s = cb.succ.it) =>
         /\ cb.succ.testit.key = cb.succ.it
         /\ cb.succ.aborted

----------------------------------------------------------------------------
(* SignalHelper: who holds handlers_lock inside the list of handlers *)

\* C31: every access to the list of handlers is made with handlers_lock
\* held: the thread that is inside handlers.insert at a registration or
\* inside handlers.erase in a Cleanup holds the lock, the handler thread
\* holds it during its pass over the list, and so no registration and no
\* removal is under way while the handler thread passes over the list.
C31_HandlerListOnlyUnderLock ==
  /\ sig.pc = "insert" => sig.handlers_lock = "main"
  /\ sig.pc = "erase" => sig.handlers_lock = "main"
  /\ sig.tpc = "iter" => sig.handlers_lock = "thread"
  /\ ~(sig.pc \in {"insert", "erase"} /\ sig.tpc = "iter")

\* what holds: the erase of a Cleanup and the pass of the thread are made
\* with the lock held and never overlap; the insert of a registration is
\* made without the lock
SigEraseAndPassUnderLock ==
  /\ sig.pc = "erase" => sig.handlers_lock = "main"
  /\ sig.tpc = "iter" => sig.handlers_lock = "thread"
  /\ ~(sig.pc = "erase" /\ sig.tpc = "iter")
  /\ sig.pc = "insert" => sig.handlers_lock # "main"
  /\ sig.race => sig.pc = "insert" /\ sig.tpc = "iter"

\* no registration is under way while the thread passes over the list
SigNoInsertDuringPass == ~(sig.pc = "insert" /\ sig.tpc = "iter")

====
